---------------------------- MODULE Spec2Model ----------------------------
(***************************************************************************)
(* DataMind: the in-memory tabular query engine (csv-tools) and the table  *)
(* store (csv-context) it reads.                                           *)
(*                                                                         *)
(* Strings are sequences of one-character strings, so that String(),       *)
(* Number(), toLowerCase(), includes() and localeCompare() are computed    *)
(* and not assumed.  Numbers are integers.  Cell values are tagged records *)
(* of one shape: null, undefined (a key the row does not have), a number,  *)
(* or a string.                                                            *)
(***************************************************************************)
EXTENDS Integers, Sequences, FiniteSets, TLC

VARIABLES
    csvDataRef,     \* csv-context.tsx: the module-level _csvDataRef
    data,           \* csv-context.tsx: CsvDataProvider's useState data
    activeFilters,  \* csv-context.tsx: CsvDataProvider's useState activeFilters
    queued,         \* the state updates setData / clearData have requested and
                    \* the provider has not rendered yet
    panelFilters,   \* data-filter-panel: DataFilterPanelBase's useState filters
    call,           \* the engine call being made / last made: [op, input]
    result,         \* what that call returned or threw (NoResult before it ran)
    snap,           \* the first call made since the table was last written, its
                    \* result, and whether a different call has been made since
    upload          \* csv-upload: the loading flag and error message last set,
                    \* the parses in flight, and a record of the paths taken

vars == <<csvDataRef, data, activeFilters, queued, panelFilters, call, result, snap,
          upload>>

-----------------------------------------------------------------------------
(* Bounds of the model *)

MaxRows == 3
MaxStoreRows == 2
MaxInferRows == 5
MaxFilters == 2
MaxUploads == 2

-----------------------------------------------------------------------------
(* Characters and strings *)

LowerLetters == <<"a","b","c","d","e","f","g","h","i","j","k","l","m",
                  "n","o","p","q","r","s","t","u","v","w","x","y","z">>
UpperLetters == <<"A","B","C","D","E","F","G","H","I","J","K","L","M",
                  "N","O","P","Q","R","S","T","U","V","W","X","Y","Z">>
Digits == <<"0","1","2","3","4","5","6","7","8","9">>

Range(s) == { s[i] : i \in DOMAIN s }

IndexIn(seq, c) == CHOOSE i \in DOMAIN seq : seq[i] = c

IsDigit(c) == c \in Range(Digits)
IsUpper(c) == c \in Range(UpperLetters)
IsLower(c) == c \in Range(LowerLetters)
IsSpace(c) == c = " "

DigitVal(c) == IndexIn(Digits, c) - 1

\* String.prototype.toLowerCase, character by character
ToLowerChar(c) == IF IsUpper(c) THEN LowerLetters[IndexIn(UpperLetters, c)] ELSE c

ToLowerCase(s) == [i \in 1..Len(s) |-> ToLowerChar(s[i])]

\* String.prototype.includes: t occurs in s as a contiguous substring
Includes(s, t) ==
    \E k \in 0..(Len(s) - Len(t)) : SubSeq(s, k + 1, k + Len(t)) = t

\* String.prototype.trim (whitespace is the space character here)
RECURSIVE TrimLeft(_)
TrimLeft(s) == IF s # <<>> /\ IsSpace(Head(s)) THEN TrimLeft(Tail(s)) ELSE s

RECURSIVE TrimRight(_)
TrimRight(s) ==
    IF s # <<>> /\ IsSpace(s[Len(s)]) THEN TrimRight(SubSeq(s, 1, Len(s) - 1)) ELSE s

Trim(s) == TrimRight(TrimLeft(s))

\* decimal digits of a natural number
RECURSIVE NatToString(_)
NatToString(n) ==
    IF n < 10 THEN <<Digits[n + 1]>>
    ELSE NatToString(n \div 10) \o <<Digits[(n % 10) + 1]>>

\* String(n) for an integer n
NumberToString(n) == IF n < 0 THEN <<"-">> \o NatToString(0 - n) ELSE NatToString(n)

RECURSIVE DigitsToNat(_)
DigitsToNat(s) ==
    IF s = <<>> THEN 0
    ELSE 10 * DigitsToNat(SubSeq(s, 1, Len(s) - 1)) + DigitVal(s[Len(s)])

AllDigits(s) == s # <<>> /\ \A i \in DOMAIN s : IsDigit(s[i])

\* a JavaScript number that is either NaN or an integer
NaN == [nan |-> TRUE, n |-> 0]
Fin(n) == [nan |-> FALSE, n |-> n]

\* Number(s) for a string s: surrounding whitespace is dropped, the empty
\* string is 0, an optionally signed run of digits is its value, anything
\* else is NaN
StringToNumber(s) ==
    LET t == Trim(s) IN
    IF t = <<>> THEN Fin(0)
    ELSE IF AllDigits(t) THEN Fin(DigitsToNat(t))
    ELSE IF Head(t) = "-" /\ AllDigits(Tail(t)) THEN Fin(0 - DigitsToNat(Tail(t)))
    ELSE IF Head(t) = "+" /\ AllDigits(Tail(t)) THEN Fin(DigitsToNat(Tail(t)))
    ELSE NaN

-----------------------------------------------------------------------------
(* Cell values: string | number | null, and undefined for a missing key *)

Null == [t |-> "null", n |-> 0, s |-> <<>>]
Undef == [t |-> "undef", n |-> 0, s |-> <<>>]
Num(n) == [t |-> "num", n |-> n, s |-> <<>>]
Str(s) == [t |-> "str", n |-> 0, s |-> s]

\* v === null || v === undefined
IsNullish(v) == v.t \in {"null", "undef"}

\* String(v ?? "")
ToStr(v) ==
    CASE v.t = "num" -> NumberToString(v.n)
      [] v.t = "str" -> v.s
      [] OTHER -> <<>>

\* Number(v): Number(null) is 0, Number(undefined) is NaN
ToNumber(v) ==
    CASE v.t = "num" -> Fin(v.n)
      [] v.t = "str" -> StringToNumber(v.s)
      [] v.t = "null" -> Fin(0)
      [] OTHER -> NaN

\* the four numeric comparisons of JavaScript: false when either side is NaN
NumGt(a, b) == ~a.nan /\ ~b.nan /\ a.n > b.n
NumLt(a, b) == ~a.nan /\ ~b.nan /\ a.n < b.n
\* NumGte read as "not less than"
NumGteNotLt(a, b) == ~NumLt(a, b)

NumGte(a, b) == ~a.nan /\ ~b.nan /\ a.n >= b.n
NumLte(a, b) == ~a.nan /\ ~b.nan /\ a.n <= b.n

-----------------------------------------------------------------------------
(* String.prototype.localeCompare: primary weights first (case ignored),   *)
(* then case (lower before upper), as the root collation orders them:      *)
(* space, punctuation, symbols, digits, letters.                           *)

CollPrimary(c) ==
    CASE IsSpace(c) -> 0
      [] c = "-" -> 1
      [] c = "+" -> 2
      [] IsDigit(c) -> 10 + DigitVal(c)
      [] IsLower(c) -> 100 + IndexIn(LowerLetters, c)
      [] IsUpper(c) -> 100 + IndexIn(UpperLetters, c)
      [] OTHER -> 1000

CollTertiary(c) == IF IsUpper(c) THEN 1 ELSE 0

\* lexicographic comparison of two sequences of integers: -1, 0 or 1
RECURSIVE LexCompare(_, _)
LexCompare(a, b) ==
    IF a = <<>> /\ b = <<>> THEN 0
    ELSE IF a = <<>> THEN -1
    ELSE IF b = <<>> THEN 1
    ELSE IF Head(a) < Head(b) THEN -1
    ELSE IF Head(a) > Head(b) THEN 1
    ELSE LexCompare(Tail(a), Tail(b))

LocaleCompare(s, t) ==
    LET p == LexCompare([i \in 1..Len(s) |-> CollPrimary(s[i])],
                        [i \in 1..Len(t) |-> CollPrimary(t[i])])
    IN IF p # 0 THEN p
       ELSE LexCompare([i \in 1..Len(s) |-> CollTertiary(s[i])],
                       [i \in 1..Len(t) |-> CollTertiary(t[i])])

-----------------------------------------------------------------------------
(* Arrays *)

Max(S) == CHOOSE x \in S : \A y \in S : y <= x
Min(S) == CHOOSE x \in S : \A y \in S : x <= y

\* one step of a stable insertion sort: x goes after the last element it
\* does not compare below
InsertSorted(sorted, x, below) ==
    LET notBelow == { i \in DOMAIN sorted : <<x, sorted[i]>> \notin below }
        p == IF notBelow = {} THEN 0 ELSE Max(notBelow)
    IN SubSeq(sorted, 1, p) \o <<x>> \o SubSeq(sorted, p + 1, Len(sorted))

\* Array.prototype.sort(cmp): a stable sort driven by the comparator, given
\* as the set of pairs <<a, b>> of elements for which cmp(a, b) < 0
SortWith(seq, below) ==
    LET f[k \in 0..Len(seq)] ==
            IF k = 0 THEN <<>> ELSE InsertSorted(f[k - 1], seq[k], below)
    IN f[Len(seq)]

\* the insertion step of an engine that asks cmp(element, x) instead of
\* cmp(x, element): x goes after the last element that does not compare
\* above it.  above is the set of pairs <<a, b>> for which cmp(a, b) > 0
InsertSortedAbove(sorted, x, above) ==
    LET notAbove == { i \in DOMAIN sorted : <<sorted[i], x>> \notin above }
        p == IF notAbove = {} THEN 0 ELSE Max(notAbove)
    IN SubSeq(sorted, 1, p) \o <<x>> \o SubSeq(sorted, p + 1, Len(sorted))

SortWithAbove(seq, above) ==
    LET f[k \in 0..Len(seq)] ==
            IF k = 0 THEN <<>> ELSE InsertSortedAbove(f[k - 1], seq[k], above)
    IN f[Len(seq)]

\* Array.prototype.slice(start, end) on integers: a negative index counts
\* from the end, and both are clamped to the array
RelIndex(len, k) == IF k < 0 THEN Max({len + k, 0}) ELSE Min({k, len})

Slice(seq, start, end) ==
    SubSeq(seq, RelIndex(Len(seq), start) + 1, RelIndex(Len(seq), end))

\* Array.prototype.includes
SeqIncludes(seq, x) == \E i \in DOMAIN seq : seq[i] = x

\* the distinct elements of seq in the order they are first met (the key
\* order of a Map or Set filled from seq)
FirstSeen(seq) ==
    LET f[k \in 0..Len(seq)] ==
            IF k = 0 THEN <<>>
            ELSE IF SeqIncludes(f[k - 1], seq[k]) THEN f[k - 1]
            ELSE Append(f[k - 1], seq[k])
    IN f[Len(seq)]

\* RoundDiv truncating instead of rounding
RoundDivDown(num, den) == num \div den

\* Math.round(num / den) for den > 0: the nearest integer, halves upwards
RoundDiv(num, den) == (2 * num + den) \div (2 * den)

Sum(seq) ==
    LET f[k \in 0..Len(seq)] == IF k = 0 THEN 0 ELSE f[k - 1] + seq[k]
    IN f[Len(seq)]

-----------------------------------------------------------------------------
(* Optional input fields, errors and results *)

Some(x) == [has |-> TRUE, v |-> x]
NoInt == [has |-> FALSE, v |-> 0]
NoStr == [has |-> FALSE, v |-> ""]
NoSeq == [has |-> FALSE, v |-> <<>>]

\* x ?? d
OrElse(opt, d) == IF opt.has THEN opt.v ELSE d

\* new Error("No CSV data loaded. Please upload a file first.")
NoDataError == [kind |-> "noData", column |-> "", available |-> <<>>]

\* new Error(`Column "${column}" not found. Available columns: ${headers.join(", ")}`)
UnknownColumnError(column, headers) ==
    [kind |-> "unknownColumn", column |-> column, available |-> headers]

Ok(out) == [ok |-> TRUE, out |-> out]
Threw(e) == [ok |-> FALSE, err |-> e]

\* no call has run yet
NoResult == Threw([kind |-> "notRun", column |-> "", available |-> <<>>])

-----------------------------------------------------------------------------
(* csv-context.tsx: the table and column type inference *)

NoData == [none |-> TRUE]

\* row[column]: undefined when the row has no such key
Get(row, column) == IF column \in DOMAIN row THEN row[column] ELSE Undef

SampleLimit == 100

\* /^\d{4}-\d{2}-\d{2}/
IsIsoDate(s) ==
    /\ Len(s) >= 10
    /\ \A i \in {1, 2, 3, 4, 6, 7, 9, 10} : IsDigit(s[i])
    /\ s[5] = "-" /\ s[8] = "-"

\* /^\d{1,2}<sep>\d{1,2}<sep>\d{2,4}/
IsSepDate(s, sep) ==
    \E a \in {1, 2}, b \in {1, 2} :
        /\ Len(s) >= a + b + 4
        /\ \A i \in 1..a : IsDigit(s[i])
        /\ s[a + 1] = sep
        /\ \A i \in (a + 2)..(a + b + 1) : IsDigit(s[i])
        /\ s[a + b + 2] = sep
        /\ IsDigit(s[a + b + 3]) /\ IsDigit(s[a + b + 4])

IsDateLike(s) == IsIsoDate(s) \/ IsSepDate(s, "/") \/ IsSepDate(s, "-")

\* val === null || val === undefined || val === ""
IsBlank(v) == IsNullish(v) \/ (v.t = "str" /\ v.s = <<>>)

\* InferColumnType reading every row, not the first SampleLimit
InferColumnTypeUnsampled(header, rows) ==
    LET nonNull == { i \in 1..Len(rows) : ~IsBlank(Get(rows[i], header)) }
        strVal(i) == Trim(ToStr(Get(rows[i], header)))
        numeric == { i \in nonNull : ~StringToNumber(strVal(i)).nan /\ strVal(i) # <<>> }
        dates == { i \in nonNull \ numeric : IsDateLike(strVal(i)) }
        totalNonNull == Cardinality(nonNull)
    IN IF totalNonNull = 0 THEN "string"
       ELSE IF 5 * Cardinality(numeric) > 4 * totalNonNull THEN "number"
       ELSE IF 5 * Cardinality(dates) > 4 * totalNonNull THEN "date"
       ELSE "string"

\* InferColumnType with thresholds of at least 80%
InferColumnTypeAtLeast(header, rows) ==
    LET sampleSize == Min({Len(rows), SampleLimit})
        nonNull == { i \in 1..sampleSize : ~IsBlank(Get(rows[i], header)) }
        strVal(i) == Trim(ToStr(Get(rows[i], header)))
        numeric == { i \in nonNull : ~StringToNumber(strVal(i)).nan /\ strVal(i) # <<>> }
        dates == { i \in nonNull \ numeric : IsDateLike(strVal(i)) }
        totalNonNull == Cardinality(nonNull)
    IN IF totalNonNull = 0 THEN "string"
       ELSE IF 5 * Cardinality(numeric) >= 4 * totalNonNull THEN "number"
       ELSE IF 5 * Cardinality(dates) >= 4 * totalNonNull THEN "date"
       ELSE "string"

InferColumnType(header, rows) ==
    LET sampleSize == Min({Len(rows), SampleLimit})
        nonNull == { i \in 1..sampleSize : ~IsBlank(Get(rows[i], header)) }
        strVal(i) == Trim(ToStr(Get(rows[i], header)))
        numeric == { i \in nonNull : ~StringToNumber(strVal(i)).nan /\ strVal(i) # <<>> }
        dates == { i \in nonNull \ numeric : IsDateLike(strVal(i)) }
        totalNonNull == Cardinality(nonNull)
    IN IF totalNonNull = 0 THEN "string"
       ELSE IF 5 * Cardinality(numeric) > 4 * totalNonNull THEN "number"
       ELSE IF 5 * Cardinality(dates) > 4 * totalNonNull THEN "date"
       ELSE "string"

InferColumnTypes(headers, rows) ==
    [h \in Range(headers) |-> InferColumnType(h, rows)]

\* the CsvData object parseFile builds and hands to setData
MakeCsvData(fileName, headers, rows) ==
    [fileName |-> fileName,
     headers |-> headers,
     rows |-> rows,
     columnTypes |-> InferColumnTypes(headers, rows),
     totalRows |-> Len(rows)]

-----------------------------------------------------------------------------
(* csv-tools: getData / getHeaders *)

GetData(ref) == IF ref = NoData THEN Threw(NoDataError) ELSE Ok(ref.rows)

GetHeaders(ref) == IF ref = NoData THEN Threw(NoDataError) ELSE Ok(ref.headers)

-----------------------------------------------------------------------------
(* Tool 3: getDataSample *)

DefaultNumRows == 10

\* getDataSample without its guard, reading through optional chaining
GetDataSampleUnguarded(ref, input) ==
    IF ref = NoData
    THEN Ok([headers |-> <<>>, rows |-> <<>>, totalRows |-> 0, columnTypes |-> <<>>])
    ELSE Ok([headers |-> ref.headers,
             rows |-> Slice(ref.rows, 0, OrElse(input.numRows, DefaultNumRows)),
             totalRows |-> ref.totalRows,
             columnTypes |-> ref.columnTypes])

GetDataSample(ref, input) ==
    IF ref = NoData THEN Threw(NoDataError)
    ELSE LET numRows == OrElse(input.numRows, DefaultNumRows)
         IN Ok([headers |-> ref.headers,
                rows |-> Slice(ref.rows, 0, numRows),
                totalRows |-> ref.totalRows,
                columnTypes |-> ref.columnTypes])

-----------------------------------------------------------------------------
(* Tool 2: queryData.  A row object is named by its index in ref.rows, so  *)
(* that two rows with equal cells stay two rows.                           *)

DefaultLimit == 50

\* EvalFilter comparing the cell's string form as it is, not lowercased
EvalFilterCaseSensitive(row, f) ==
    LET val == Get(row, f.column)
        strVal == ToStr(val)
        filterVal == IF f.value.t = "str" THEN Str(ToLowerCase(f.value.s)) ELSE f.value
    IN CASE f.operator = "equals" -> strVal = ToStr(filterVal)
         [] f.operator = "notEquals" -> strVal # ToStr(filterVal)
         [] f.operator = "contains" -> Includes(strVal, ToStr(filterVal))
         [] f.operator = "gt" -> NumGt(ToNumber(val), ToNumber(f.value))
         [] f.operator = "lt" -> NumLt(ToNumber(val), ToNumber(f.value))
         [] f.operator = "gte" -> NumGte(ToNumber(val), ToNumber(f.value))
         [] f.operator = "lte" -> NumLte(ToNumber(val), ToNumber(f.value))
         [] OTHER -> TRUE

\* the body of input.filters.every(...): one condition f on one row
EvalFilter(row, f) ==
    LET val == Get(row, f.column)
        strVal == ToLowerCase(ToStr(val))
        filterVal == IF f.value.t = "str" THEN Str(ToLowerCase(f.value.s)) ELSE f.value
    IN CASE f.operator = "equals" -> strVal = ToStr(filterVal)
         [] f.operator = "notEquals" -> strVal # ToStr(filterVal)
         [] f.operator = "contains" -> Includes(strVal, ToStr(filterVal))
         [] f.operator = "gt" -> NumGt(ToNumber(val), ToNumber(f.value))
         [] f.operator = "lt" -> NumLt(ToNumber(val), ToNumber(f.value))
         [] f.operator = "gte" -> NumGte(ToNumber(val), ToNumber(f.value))
         [] f.operator = "lte" -> NumLte(ToNumber(val), ToNumber(f.value))
         [] OTHER -> TRUE

\* the filter step: the rows (by index, in table order) that pass every filter
QueryFiltered(ref, input) ==
    LET all == [i \in 1..Len(ref.rows) |-> i]
        passes(i) == \A k \in DOMAIN input.filters.v :
                         EvalFilter(ref.rows[i], input.filters.v[k])
    IN IF input.filters.has /\ Len(input.filters.v) > 0
       THEN SelectSeq(all, passes)
       ELSE all

\* QueryCompare with the direction applied to the null checks too
QueryCompareNullsReversed(aVal, bVal, dir) ==
    IF IsNullish(aVal) THEN 1 * dir
    ELSE IF IsNullish(bVal) THEN (0 - 1) * dir
    ELSE IF aVal.t = "num" /\ bVal.t = "num" THEN (aVal.n - bVal.n) * dir
    ELSE LocaleCompare(ToStr(aVal), ToStr(bVal)) * dir

\* the comparator of the sort step
QueryCompare(aVal, bVal, dir) ==
    IF IsNullish(aVal) THEN 1
    ELSE IF IsNullish(bVal) THEN -1
    ELSE IF aVal.t = "num" /\ bVal.t = "num" THEN (aVal.n - bVal.n) * dir
    ELSE LocaleCompare(ToStr(aVal), ToStr(bVal)) * dir

\* the sort step: filtered, or a sorted copy of it
QuerySorted(ref, input) ==
    LET filtered == QueryFiltered(ref, input)
        dir == IF input.sortOrder.has /\ input.sortOrder.v = "desc" THEN -1 ELSE 1
        cmp(i, j) == QueryCompare(Get(ref.rows[i], input.sortBy.v),
                                  Get(ref.rows[j], input.sortBy.v), dir)
        below == { p \in Range(filtered) \X Range(filtered) : cmp(p[1], p[2]) < 0 }
    IN IF input.sortBy.has /\ input.sortBy.v # ""
          /\ SeqIncludes(ref.headers, input.sortBy.v)
       THEN SortWith(filtered, below)
       ELSE filtered

\* the orders the sort step can leave the filtered rows in.  The comparator
\* answers 1 for two null values whichever comes first, so it is not a
\* consistent comparator and the order is the engine's: one that asks
\* cmp(x, element) and one that asks cmp(element, x) are both allowed
QuerySortOutcomes(ref, input) ==
    LET filtered == QueryFiltered(ref, input)
        dir == IF input.sortOrder.has /\ input.sortOrder.v = "desc" THEN -1 ELSE 1
        cmp(i, j) == QueryCompare(Get(ref.rows[i], input.sortBy.v),
                                  Get(ref.rows[j], input.sortBy.v), dir)
        below == { p \in Range(filtered) \X Range(filtered) : cmp(p[1], p[2]) < 0 }
        above == { p \in Range(filtered) \X Range(filtered) : cmp(p[1], p[2]) > 0 }
    IN IF input.sortBy.has /\ input.sortBy.v # ""
          /\ SeqIncludes(ref.headers, input.sortBy.v)
       THEN { SortWith(filtered, below), SortWithAbove(filtered, above) }
       ELSE { filtered }

\* QueryPage with the slice ending one row early
QueryPageShort(ref, input) ==
    LET offset == OrElse(input.offset, 0)
        limit == OrElse(input.limit, DefaultLimit)
    IN Slice(QuerySorted(ref, input), offset, offset + limit - 1)

\* the pagination step
QueryPage(ref, input) ==
    LET offset == OrElse(input.offset, 0)
        limit == OrElse(input.limit, DefaultLimit)
    IN Slice(QuerySorted(ref, input), offset, offset + limit)

\* the column selection
QueryColumns(ref, input) ==
    IF input.columns.has /\ Len(input.columns.v) > 0
    THEN LET known(c) == SeqIncludes(ref.headers, c)
         IN SelectSeq(input.columns.v, known)
    ELSE ref.headers

ProjectRow(row, columns) == [c \in Range(columns) |-> Get(row, c)]

\* ref.rows had the sort step sorted in place: with no filter, filtered is
\* allRows itself
RowsAfterQueryInPlace(ref, input) ==
    IF input.filters.has /\ Len(input.filters.v) > 0 THEN ref.rows
    ELSE LET sorted == QuerySorted(ref, input)
         IN [k \in 1..Len(sorted) |-> ref.rows[sorted[k]]]

\* ref.rows as queryData leaves it: the sort works on a copy
RowsAfterQuery(ref, input) == ref.rows

QueryData(ref, input) ==
    IF ~GetData(ref).ok THEN GetData(ref)
    ELSE IF ~GetHeaders(ref).ok THEN GetHeaders(ref)
    ELSE LET page == QueryPage(ref, input)
             columns == QueryColumns(ref, input)
         IN Ok([rows |-> [k \in 1..Len(page) |-> ProjectRow(ref.rows[page[k]], columns)],
                totalMatched |-> Len(QuerySorted(ref, input)),
                columns |-> columns])

\* queryData when the sort step leaves the filtered rows in the order sorted
QueryDataSortedAs(ref, input, sorted) ==
    IF ~GetData(ref).ok THEN GetData(ref)
    ELSE IF ~GetHeaders(ref).ok THEN GetHeaders(ref)
    ELSE LET offset == OrElse(input.offset, 0)
             limit == OrElse(input.limit, DefaultLimit)
             page == Slice(sorted, offset, offset + limit)
             columns == QueryColumns(ref, input)
         IN Ok([rows |-> [k \in 1..Len(page) |-> ProjectRow(ref.rows[page[k]], columns)],
                totalMatched |-> Len(sorted),
                columns |-> columns])

-----------------------------------------------------------------------------
(* Tool 1: getColumnStats.  mean, median and stdDev are held in hundredths *)
(* (Math.round(x * 100) / 100); min and max are the numbers themselves.    *)

\* rows.map((r) => r[column])
ColumnCells(ref, column) == [i \in 1..Len(ref.rows) |-> Get(ref.rows[i], column)]

\* NumericValues without the first filter: Number(null) and Number("") are 0
NumericValuesOfAll(values) ==
    LET keep(v) == ~ToNumber(v).nan
        kept == SelectSeq(values, keep)
    IN [i \in 1..Len(kept) |-> ToNumber(kept[i]).n]

\* the values that are not blank and whose Number() is not NaN, as numbers
NumericValues(values) ==
    LET keep(v) == ~IsBlank(v) /\ ~ToNumber(v).nan
        kept == SelectSeq(values, keep)
    IN [i \in 1..Len(kept) |-> ToNumber(kept[i]).n]

\* NullCount without the empty string
NullCountNullish(values) == Cardinality({ i \in DOMAIN values : IsNullish(values[i]) })

NullCount(values) == Cardinality({ i \in DOMAIN values : IsBlank(values[i]) })

\* UniqueCount over String(v): null and undefined keep their own names
UniqueCountNoCoalesce(values) ==
    LET name(v) == CASE v.t = "null" -> <<"n", "u", "l", "l">>
                     [] v.t = "undef" -> <<"u", "n", "d", "e", "f", "i", "n", "e", "d">>
                     [] OTHER -> ToStr(v)
    IN Cardinality({ name(values[i]) : i \in DOMAIN values })

\* new Set(values.map((v) => String(v ?? ""))).size
UniqueCount(values) == Cardinality({ ToStr(values[i]) : i \in DOMAIN values })

NumAscending(a, b) == a - b

\* Math.round(Math.sqrt(q) / n * 100), for q >= 0 and n > 0, known to be at most hi
RoundedRoot(q, n, hi) ==
    CHOOSE r \in 0..hi :
        /\ (r = 0 \/ (2 * r - 1) * (2 * r - 1) * n * n <= 40000 * q)
        /\ 40000 * q < (2 * r + 1) * (2 * r + 1) * n * n

GetColumnStats(ref, input) ==
    IF ~GetData(ref).ok THEN GetData(ref)
    ELSE IF ~GetHeaders(ref).ok THEN GetHeaders(ref)
    ELSE IF ~SeqIncludes(ref.headers, input.column)
    THEN Threw(UnknownColumnError(input.column, ref.headers))
    ELSE LET values == ColumnCells(ref, input.column)
             numericValues == NumericValues(values)
             n == Len(numericValues)
             below == { p \in Range(numericValues) \X Range(numericValues) :
                           NumAscending(p[1], p[2]) < 0 }
             sorted == SortWith(numericValues, below)
             sum == Sum(numericValues)
             squares == Sum([i \in 1..n |-> numericValues[i] * numericValues[i]])
             median100 == IF n % 2 = 0
                          THEN 50 * (sorted[n \div 2] + sorted[(n \div 2) + 1])
                          ELSE 100 * sorted[(n \div 2) + 1]
             base == [column |-> input.column,
                      count |-> Len(values),
                      nullCount |-> NullCount(values),
                      uniqueCount |-> UniqueCount(values)]
         IN IF n = 0
            THEN Ok(base @@ [min |-> NoInt, max |-> NoInt, mean |-> NoInt,
                             median |-> NoInt, stdDev |-> NoInt])
            ELSE Ok(base @@ [min |-> Some(sorted[1]),
                             max |-> Some(sorted[n]),
                             mean |-> Some(RoundDiv(100 * sum, n)),
                             median |-> Some(median100),
                             stdDev |-> Some(RoundedRoot(n * squares - sum * sum, n,
                                                         100 * (sorted[n] - sorted[1])))])

-----------------------------------------------------------------------------
(* Tool 4: getColumnValues.  percentage is held in hundredths.             *)

DefaultValuesLimit == 50

CountDescending(a, b) == b.count - a.count

\* the entries of the counts Map, in the order the keys were first set
CountEntries(values) ==
    LET keys == FirstSeen([i \in DOMAIN values |-> ToStr(values[i])])
    IN [k \in 1..Len(keys) |->
            [value |-> keys[k],
             count |-> Cardinality({ i \in DOMAIN values : ToStr(values[i]) = keys[k] })]]

GetColumnValues(ref, input) ==
    IF ~GetData(ref).ok THEN GetData(ref)
    ELSE IF ~GetHeaders(ref).ok THEN GetHeaders(ref)
    ELSE IF ~SeqIncludes(ref.headers, input.column)
    THEN Threw(UnknownColumnError(input.column, ref.headers))
    ELSE LET entries == CountEntries(ColumnCells(ref, input.column))
             total == Len(ref.rows)
             below == { p \in Range(entries) \X Range(entries) :
                           CountDescending(p[1], p[2]) < 0 }
             sorted == Slice(SortWith(entries, below), 0,
                             OrElse(input.limit, DefaultValuesLimit))
         IN Ok([column |-> input.column,
                uniqueCount |-> Len(entries),
                values |-> [k \in 1..Len(sorted) |->
                               [value |-> sorted[k].value,
                                count |-> sorted[k].count,
                                percentage |-> RoundDiv(sorted[k].count * 10000, total)]]])

-----------------------------------------------------------------------------
(* Tool 5: aggregateData.  A group's value is a JavaScript number held in  *)
(* hundredths (Math.round(value * 100) / 100), or NaN.                     *)

\* the numbers pushed for one group: Number(row[aggregateColumn]) of its
\* rows, in table order, NaN left out
GroupNumbers(ref, input, group) ==
    LET member(i) == /\ ToStr(Get(ref.rows[i], input.groupBy)) = group
                     /\ ~ToNumber(Get(ref.rows[i], input.aggregateColumn)).nan
        rows == SelectSeq([i \in 1..Len(ref.rows) |-> i], member)
    IN [k \in 1..Len(rows) |-> ToNumber(Get(ref.rows[rows[k]], input.aggregateColumn)).n]

\* the switch on input.operation; an operation it does not list leaves
\* value undefined, and Math.round(undefined * 100) / 100 is NaN
Reduce(operation, values) ==
    CASE operation = "sum" -> Fin(100 * Sum(values))
      [] operation = "avg" ->
            IF Len(values) > 0 THEN Fin(RoundDiv(100 * Sum(values), Len(values)))
            ELSE Fin(0)
      [] operation = "count" -> Fin(100 * Len(values))
      [] operation = "min" ->
            IF Len(values) > 0 THEN Fin(100 * Min(Range(values))) ELSE Fin(0)
      [] operation = "max" ->
            IF Len(values) > 0 THEN Fin(100 * Max(Range(values))) ELSE Fin(0)
      [] OTHER -> NaN

\* (a.value - b.value) * dir; a NaN comparison result sorts as 0
AggValueCompare(a, b, dir) ==
    IF a.value.nan \/ b.value.nan THEN 0 ELSE (a.value.n - b.value.n) * dir

\* AggGroupCompare with its operands exchanged
AggGroupCompareSwapped(a, b, dir) == LocaleCompare(b.group, a.group) * dir

AggGroupCompare(a, b, dir) == LocaleCompare(a.group, b.group) * dir

AggregateData(ref, input) ==
    IF ~GetData(ref).ok THEN GetData(ref)
    ELSE IF ~GetHeaders(ref).ok THEN GetHeaders(ref)
    ELSE IF ~SeqIncludes(ref.headers, input.groupBy)
    THEN Threw(UnknownColumnError(input.groupBy, ref.headers))
    ELSE IF ~SeqIncludes(ref.headers, input.aggregateColumn)
    THEN Threw(UnknownColumnError(input.aggregateColumn, ref.headers))
    ELSE LET cells == ColumnCells(ref, input.groupBy)
             keys == FirstSeen([i \in DOMAIN cells |-> ToStr(cells[i])])
             results == [k \in 1..Len(keys) |->
                            [group |-> keys[k],
                             value |-> Reduce(input.operation,
                                              GroupNumbers(ref, input, keys[k]))]]
             dir == IF input.sortOrder.has /\ input.sortOrder.v = "desc" THEN -1 ELSE 1
             byValue == { p \in Range(results) \X Range(results) :
                             AggValueCompare(p[1], p[2], dir) < 0 }
             byGroup == { p \in Range(results) \X Range(results) :
                             AggGroupCompare(p[1], p[2], dir) < 0 }
             sorted == IF input.sortBy.has /\ input.sortBy.v = "value"
                       THEN SortWith(results, byValue)
                       ELSE SortWith(results, byGroup)
             limited == IF input.limit.has /\ input.limit.v # 0
                        THEN Slice(sorted, 0, input.limit.v)
                        ELSE sorted
         IN Ok([groupBy |-> input.groupBy,
                aggregateColumn |-> input.aggregateColumn,
                operation |-> input.operation,
                results |-> limited])

-----------------------------------------------------------------------------
(* csv-preview.tsx: the data grid *)

MaxDisplayRows == 500

\* EvalActiveFilter comparing with the filter's value as typed, not lowercased
EvalActiveFilterAsTyped(row, f) ==
    LET val == Get(row, f.column)
        strVal == ToLowerCase(ToStr(val))
        filterVal == f.value
    IN CASE f.operator = "equals" -> strVal = filterVal
         [] f.operator = "notEquals" -> strVal # filterVal
         [] f.operator = "contains" -> Includes(strVal, filterVal)
         [] f.operator = "gt" -> NumGt(ToNumber(val), StringToNumber(f.value))
         [] f.operator = "lt" -> NumLt(ToNumber(val), StringToNumber(f.value))
         [] f.operator = "gte" -> NumGte(ToNumber(val), StringToNumber(f.value))
         [] f.operator = "lte" -> NumLte(ToNumber(val), StringToNumber(f.value))
         [] OTHER -> TRUE

\* the body of filters.every(...) in applyFilters: one active filter, whose
\* value is a string, on one row
EvalActiveFilter(row, f) ==
    LET val == Get(row, f.column)
        strVal == ToLowerCase(ToStr(val))
        filterVal == ToLowerCase(f.value)
    IN CASE f.operator = "equals" -> strVal = filterVal
         [] f.operator = "notEquals" -> strVal # filterVal
         [] f.operator = "contains" -> Includes(strVal, filterVal)
         [] f.operator = "gt" -> NumGt(ToNumber(val), StringToNumber(f.value))
         [] f.operator = "lt" -> NumLt(ToNumber(val), StringToNumber(f.value))
         [] f.operator = "gte" -> NumGte(ToNumber(val), StringToNumber(f.value))
         [] f.operator = "lte" -> NumLte(ToNumber(val), StringToNumber(f.value))
         [] OTHER -> TRUE

ApplyFilters(rows, fs) ==
    LET every(row) == \A k \in DOMAIN fs : EvalActiveFilter(row, fs[k])
    IN IF Len(fs) = 0 THEN rows ELSE SelectSeq(rows, every)

\* CsvPreview's filteredAndSortedRows, no column being chosen to sort by:
\* the rows of the provider's table that pass the context's active filters
GridRows(d, fs) ==
    IF d = NoData THEN <<>> ELSE Slice(ApplyFilters(d.rows, fs), 0, MaxDisplayRows)

-----------------------------------------------------------------------------
(* The tables that are loaded: an "id" column numbering the rows and a     *)
(* column "v" of cells.                                                    *)

Headers == <<"id", "v">>

MkRow(i, v) == [id |-> Num(i), v |-> v]

TablesOf(cells, maxRows) ==
    UNION { { MakeCsvData("data.csv", Headers, [i \in 1..n |-> MkRow(i, c[i])]) :
                c \in [1..n -> cells] } : n \in 0..maxRows }

StoreCells == { Null, Num(2) }
SortCells == { Null, Num(2), Num(10), Str(<<"1", "x">>) }
QueryCells == { Null, Undef, Num(2), Num(10), Str(<<"A", "b">>) }
StatsCells == { Null, Undef, Str(<<>>), Num(10), Str(<<"1", "0">>), Str(<<"x">>) }

\* the column [10, 20, 30, null, "x"]
ExampleStatsTable ==
    MakeCsvData("data.csv", Headers,
                <<MkRow(1, Num(10)), MkRow(2, Num(20)), MkRow(3, Num(30)),
                  MkRow(4, Null), MkRow(5, Str(<<"x">>))>>)

\* cells for the numeric statistics: numbers, a numeric string, nulls and text
NumericCells == { Null, Str(<<"x">>), Str(<<" ", "7">>), Num(10), Num(20), Num(35),
                  Num(0 - 4) }

\* cells for the value distribution: keys that tie, and three cells sharing
\* the empty key
ValuesCells == { Null, Undef, Str(<<>>), Num(2), Str(<<"2">>), Str(<<"b">>),
                 Str(<<"a">>) }

\* tables to aggregate: a column "region" to group by and a column "sales"
\* to reduce
AggHeaders == <<"region", "sales">>

AggRow(g, a) == [region |-> g, sales |-> a]

GroupCells == { Null, Str(<<"S">>), Str(<<"N">>) }
SalesCells == { Null, Num(10), Num(5), Str(<<"x">>) }

AggTablesOf(groups, sales, maxRows) ==
    UNION { { MakeCsvData("sales.csv", AggHeaders,
                          [i \in 1..n |-> AggRow(c[i][1], c[i][2])]) :
                c \in [1..n -> groups \X sales] } : n \in 0..maxRows }

\* the rows (N, 10), (N, 20), (S, 5)
ExampleAggTable ==
    MakeCsvData("sales.csv", AggHeaders,
                <<AggRow(Str(<<"N">>), Num(10)), AggRow(Str(<<"N">>), Num(20)),
                  AggRow(Str(<<"S">>), Num(5))>>)

\* group keys that differ in case only, a numeric key and its string
MixedAggTable ==
    MakeCsvData("sales.csv", AggHeaders,
                <<AggRow(Str(<<"n">>), Num(1)), AggRow(Num(2), Num(2)),
                  AggRow(Str(<<"N">>), Num(3)), AggRow(Str(<<"2">>), Num(4)),
                  AggRow(Undef, Num(5)), AggRow(Null, Str(<<"7">>))>>)

\* every grouping of up to MaxRows rows over two sales values, every column
\* of sales values over two groups, and the two tables above
AggTables ==
    AggTablesOf(GroupCells, {Null, Num(10)}, MaxRows)
    \cup AggTablesOf({Str(<<"S">>), Str(<<"N">>)}, SalesCells, MaxRows)
    \cup {ExampleAggTable, MixedAggTable}

\* the parsed rows of a file whose column types are inferred: a blank, a
\* number, a numeric string, a text and a date
IsoDate == Str(<<"2","0","2","4","-","0","1","-","1","5">>)
SlashDate == Str(<<"1","/","2","/","2","4">>)
DashDate == Str(<<"1","2","-","3","1","-","2","0","2","4">>)

InferCells == { Null, Num(1), Str(<<" ", "1", "2">>), Str(<<"x">>), IsoDate }

ParsedFile(cells) ==
    [fileName |-> "data.csv", headers |-> Headers,
     rows |-> [i \in DOMAIN cells |-> MkRow(i, cells[i])]]

\* dates of the other two shapes after an empty string; a string of spaces
\* before four numbers; a file longer than the sample, 80% numeric within
\* the sample and more beyond it
ExtraParsedFiles ==
    { ParsedFile(<<Str(<<>>), SlashDate, DashDate, SlashDate, DashDate>>),
      ParsedFile(<<Str(<<" ">>), Num(1), Num(1), Num(1), Num(1)>>),
      ParsedFile([i \in 1..(SampleLimit + 5) |->
                     IF i \in 81..SampleLimit THEN Str(<<"x">>) ELSE Num(1)]) }

ParsedFiles ==
    UNION { { ParsedFile(c) : c \in [1..n -> InferCells] } : n \in 0..MaxInferRows }
    \cup ExtraParsedFiles

\* a file the user drops or selects, by what reading and parsing it gives:
\* the extension of its name, whether the reader or the parser fails (the
\* error callback, or an exception), the number of parse errors reported on
\* completion, and the header fields and data rows
UploadedFile(fileName, extension, fails, errors, rows) ==
    [fileName |-> fileName, extension |-> extension, fails |-> fails,
     errors |-> errors, headers |-> Headers, rows |-> rows]

\* a csv file of one row, one of a header line only, one that gives errors
\* and no row, one that gives an error and a row, and one the parser cannot
\* read; a sheet of one row, an empty sheet and one that cannot be read; and
\* a file that is neither
UploadedFiles ==
    { UploadedFile("a.csv", "csv", FALSE, 0, <<MkRow(1, Num(2))>>),
      UploadedFile("b.csv", "csv", FALSE, 0, <<>>),
      UploadedFile("c.csv", "csv", FALSE, 1, <<>>),
      UploadedFile("d.csv", "csv", FALSE, 1, <<MkRow(1, Null)>>),
      UploadedFile("e.csv", "csv", TRUE, 0, <<>>),
      UploadedFile("f.xlsx", "xlsx", FALSE, 0, <<MkRow(1, Num(10))>>),
      UploadedFile("g.xls", "xls", FALSE, 0, <<>>),
      UploadedFile("h.xlsb", "xlsb", TRUE, 0, <<>>),
      UploadedFile("i.txt", "txt", FALSE, 0, <<>>) }

StoreTables == TablesOf(StoreCells, MaxStoreRows)
ValuesTables == TablesOf(ValuesCells, MaxRows)
NumericTables == TablesOf(NumericCells, MaxRows) \cup {ExampleStatsTable}
SortTables == TablesOf(SortCells, MaxRows)
QueryTables == TablesOf(QueryCells, MaxRows)
StatsTables == TablesOf(StatsCells, MaxRows) \cup {ExampleStatsTable}

-----------------------------------------------------------------------------
(* The inputs the caller sends *)

Cond(column, operator, value) ==
    [column |-> column, operator |-> operator, value |-> value]

QueryInput(filters, columns, limit, offset, sortBy, sortOrder) ==
    [filters |-> filters, columns |-> columns, limit |-> limit,
     offset |-> offset, sortBy |-> sortBy, sortOrder |-> sortOrder]

DefaultQuery == QueryInput(NoSeq, NoSeq, NoInt, NoInt, NoStr, NoStr)

StatsInput(column) == [column |-> column]
SampleInput(numRows) == [numRows |-> numRows]
ValuesInput(column, limit) == [column |-> column, limit |-> limit]
AggInput(groupBy, aggregateColumn, operation, sortBy, sortOrder, limit) ==
    [groupBy |-> groupBy, aggregateColumn |-> aggregateColumn,
     operation |-> operation, sortBy |-> sortBy, sortOrder |-> sortOrder,
     limit |-> limit]

Operators == {"equals", "notEquals", "contains", "gt", "lt", "gte", "lte"}
Operations == {"sum", "avg", "count", "min", "max"}

\* conditions on the cell column, on the id column and on a column the table lacks
FilterPool ==
    { Cond("v", "equals", Str(<<"a", "b">>)),
      Cond("v", "equals", Str(<<"A", "B">>)),
      Cond("v", "equals", Num(10)),
      Cond("v", "equals", Str(<<>>)),
      Cond("v", "notEquals", Str(<<"a", "B">>)),
      Cond("v", "notEquals", Num(2)),
      Cond("v", "contains", Str(<<"B">>)),
      Cond("v", "contains", Num(1)),
      Cond("v", "contains", Str(<<>>)),
      Cond("v", "gt", Num(5)),
      Cond("v", "gt", Str(<<"x">>)),
      Cond("v", "lt", Num(5)),
      Cond("v", "gte", Str(<<"1", "0">>)),
      Cond("v", "lte", Num(2)),
      Cond("id", "gt", Num(1)),
      Cond("zz", "equals", Str(<<>>)),
      Cond("v", "like", Str(<<"a">>)) }

FilterLists ==
    {NoSeq, Some(<<>>)}
    \cup { Some(<<f>>) : f \in FilterPool }
    \cup { Some(<<Cond("id", "gt", Num(1)), f>>) :
             f \in { Cond("v", "contains", Str(<<"B">>)), Cond("v", "lt", Num(5)),
                     Cond("v", "notEquals", Num(2)) } }

\* (sortBy, sortOrder)
SortChoices ==
    { <<NoStr, NoStr>>, <<Some("v"), NoStr>>, <<Some("v"), Some("asc")>>,
      <<Some("v"), Some("desc")>>, <<Some("id"), Some("desc")>>,
      <<Some("zz"), Some("asc")>>, <<NoStr, Some("desc")>> }

\* (limit, offset)
PageChoices ==
    { <<NoInt, NoInt>>, <<Some(1), Some(0)>>, <<Some(1), Some(1)>>,
      <<Some(1), Some(2)>>, <<Some(2), NoInt>>, <<Some(2), Some(2)>>,
      <<Some(3), Some(3)>>, <<Some(0), Some(0)>>, <<Some(0 - 1), NoInt>>,
      <<Some(2), Some(0 - 1)>> }

ColumnChoices ==
    { NoSeq, Some(<<>>), Some(<<"v">>), Some(<<"v", "id">>), Some(<<"zz", "id">>) }

\* filters with string values, as the filter panel and the grid hold them:
\* every operator with a text, the empty string and numerals
StringFilterValues == { <<"A", "b">>, <<>>, <<"2">>, <<"1", "0">>, <<"x">> }

StringFilterLists ==
    {NoSeq, Some(<<>>)}
    \cup { Some(<<Cond("v", op, Str(s))>>) : op \in Operators, s \in StringFilterValues }
    \cup { Some(<<Cond("id", "gte", Str(<<"2">>)), Cond("v", op, Str(<<"2">>))>>) :
             op \in Operators }

GridInputs == { QueryInput(f, NoSeq, NoInt, NoInt, NoStr, NoStr) : f \in StringFilterLists }

\* sorted queries of every row, or of the rows that are not 2
SortInputs ==
    { QueryInput(f, NoSeq, NoInt, NoInt, s[1], s[2]) :
        f \in { NoSeq, Some(<<Cond("v", "notEquals", Num(2))>>) },
        s \in { <<Some("v"), NoStr>>, <<Some("v"), Some("asc")>>,
                <<Some("v"), Some("desc")>>, <<Some("id"), Some("desc")>>,
                <<Some("zz"), Some("asc")>> } }

QueryInputs ==
    { QueryInput(f, NoSeq, NoInt, NoInt, s[1], s[2]) :
        f \in FilterLists, s \in { <<NoStr, NoStr>>, <<Some("v"), Some("desc")>> } }
    \cup
    { QueryInput(f, NoSeq, p[1], p[2], s[1], s[2]) :
        f \in { NoSeq, Some(<<Cond("v", "lt", Num(5))>>) },
        p \in PageChoices, s \in SortChoices }
    \cup
    { QueryInput(NoSeq, c, p[1], p[2], s[1], s[2]) :
        c \in ColumnChoices,
        p \in { <<NoInt, NoInt>>, <<Some(1), Some(1)>> },
        s \in { <<NoStr, NoStr>>, <<Some("v"), Some("asc")>> } }


StatsInputs == { StatsInput(c) : c \in {"v", "id", "zz"} }

\* the filters the user or the AI sets in the filter panel
ActiveFilter(column, operator, value) ==
    [column |-> column, operator |-> operator, value |-> value]

PanelFilterPool ==
    { ActiveFilter("v", "equals", <<"2">>), ActiveFilter("id", "gt", <<"1">>) }

PanelFilterLists ==
    UNION { [1..n -> PanelFilterPool] : n \in 0..MaxFilters }

\* every operation in the default order, and sum in the other orders and
\* with limits
AggInputs ==
    { AggInput("region", "sales", op, NoStr, NoStr, NoInt) : op \in Operations }
    \cup { AggInput("region", "sales", "sum", s[1], s[2], l) :
              s \in { <<Some("group"), Some("desc")>>, <<Some("value"), NoStr>>,
                      <<Some("value"), Some("desc")>> },
              l \in { NoInt, Some(1) } }
    \cup { AggInput("region", "sales", "sum", NoStr, NoStr, l) :
              l \in { Some(0), Some(2), Some(0 - 1) } }
    \cup { AggInput("sales", "region", "count", NoStr, NoStr, NoInt),
           AggInput("region", "zz", "sum", NoStr, NoStr, NoInt) }

ValuesInputs ==
    { ValuesInput("v", l) :
        l \in {NoInt, Some(0), Some(1), Some(2), Some(MaxRows + 1), Some(0 - 1)} }
    \cup { ValuesInput("id", NoInt), ValuesInput("zz", NoInt) }

\* the calls the store machine makes: a few inputs for each of the five tools
StoreStatsInputs == { StatsInput("v"), StatsInput("zz") }
StoreSampleInputs == { SampleInput(NoInt), SampleInput(Some(1)) }
StoreValuesInputs ==
    { ValuesInput("v", NoInt), ValuesInput("zz", NoInt), ValuesInput("v", Some(1)) }
StoreAggInputs ==
    { AggInput("v", "id", "sum", NoStr, NoStr, NoInt),
      AggInput("zz", "id", "sum", NoStr, NoStr, NoInt),
      AggInput("v", "zz", "count", NoStr, NoStr, NoInt),
      AggInput("v", "id", "median", NoStr, NoStr, NoInt),
      AggInput("v", "id", "avg", Some("value"), Some("desc"), Some(1)) }
StoreQueryInputs ==
    { DefaultQuery,
      QueryInput(Some(<<Cond("v", "equals", Str(<<"a", "b">>))>>),
                 NoSeq, NoInt, NoInt, NoStr, NoStr),
      QueryInput(Some(<<Cond("v", "like", Str(<<"a">>))>>),
                 NoSeq, NoInt, NoInt, NoStr, NoStr),
      QueryInput(Some(<<Cond("zz", "equals", Str(<<>>))>>),
                 NoSeq, NoInt, NoInt, NoStr, NoStr),
      QueryInput(NoSeq, NoSeq, NoInt, NoInt, Some("v"), Some("asc")),
      QueryInput(NoSeq, NoSeq, NoInt, NoInt, Some("v"), Some("desc")),
      QueryInput(NoSeq, NoSeq, NoInt, NoInt, Some("zz"), NoStr),
      QueryInput(NoSeq, Some(<<"zz", "v">>), NoInt, NoInt, NoStr, NoStr),
      QueryInput(NoSeq, NoSeq, Some(1), Some(1), NoStr, NoStr) }

-----------------------------------------------------------------------------
(* The state machine *)

Call(op, input) == [op |-> op, input |-> input]
NoCall == [op |-> "none", input |-> <<>>]
NoSnap == [call |-> NoCall, result |-> NoResult, others |-> FALSE]

\* the tool the caller's request names, applied to the table in the slot
Eval(ref, c) ==
    CASE c.op = "getColumnStats" -> GetColumnStats(ref, c.input)
      [] c.op = "queryData" -> QueryData(ref, c.input)
      [] c.op = "getDataSample" -> GetDataSample(ref, c.input)
      [] c.op = "getColumnValues" -> GetColumnValues(ref, c.input)
      [] c.op = "aggregateData" -> AggregateData(ref, c.input)

\* csv-upload before any file is chosen: not loading, no error, no parse
\* in flight; started and finished count the parseFile calls made and the
\* paths that have ended, last is the path that ended last, and lastWriter
\* the parseFile call (by its number) whose table was handed to setData last
NoError == "null"
NoUploads ==
    [isLoading |-> FALSE, error |-> NoError, inFlight |-> {},
     started |-> 0, finished |-> 0, last |-> "none", lastWriter |-> 0]

\* no state update is waiting for a render
NoUpdate == [none |-> TRUE]

\* the table object as a call leaves it
StoreAfter(ref, c) ==
    IF ref # NoData /\ c.op = "queryData"
    THEN [ref EXCEPT !.rows = RowsAfterQuery(ref, c.input)]
    ELSE ref

\* a tool call runs to completion: its result, and what it leaves of the table
Returns(c) ==
    /\ call' = c
    /\ result' = Eval(csvDataRef, c)
    /\ csvDataRef' = StoreAfter(csvDataRef, c)
    /\ data' = IF data = csvDataRef THEN StoreAfter(csvDataRef, c) ELSE data
    /\ queued' = IF queued = NoUpdate THEN NoUpdate
                 ELSE [queued EXCEPT !.data = StoreAfter(csvDataRef, c)]
    /\ snap' = IF snap = NoSnap
               THEN [call |-> c, result |-> Eval(csvDataRef, c), others |-> FALSE]
               ELSE [snap EXCEPT !.others = @ \/ c # snap.call]
    /\ UNCHANGED <<activeFilters, panelFilters, upload>>

Init ==
    /\ csvDataRef = NoData
    /\ data = NoData
    /\ activeFilters = <<>>
    /\ queued = NoUpdate
    /\ panelFilters = <<>>
    /\ upload = NoUploads
    /\ call = NoCall
    /\ result = NoResult
    /\ snap = NoSnap

\* CsvDataProvider.setData(newData): the module-level reference is assigned
\* at once; setDataState and setActiveFilters request state updates, which
\* the provider's next render applies
SetData(newData) ==
    /\ csvDataRef' = newData
    /\ queued' = [data |-> newData, activeFilters |-> <<>>]
    /\ call' = NoCall
    /\ result' = NoResult
    /\ snap' = NoSnap
    /\ UNCHANGED <<data, activeFilters, panelFilters>>

\* CsvDataProvider.clearData()
ClearData ==
    /\ csvDataRef' = NoData
    /\ queued' = [data |-> NoData, activeFilters |-> <<>>]
    /\ call' = NoCall
    /\ result' = NoResult
    /\ snap' = NoSnap
    /\ UNCHANGED <<data, activeFilters, panelFilters, upload>>

\* the provider renders: useState returns the requested values
Render ==
    /\ queued # NoUpdate
    /\ data' = queued.data
    /\ activeFilters' = queued.activeFilters
    /\ queued' = NoUpdate
    /\ call' = NoCall
    /\ result' = NoResult
    /\ UNCHANGED <<csvDataRef, panelFilters, snap, upload>>

Upload == \E d \in StoreTables : SetData(d) /\ UNCHANGED upload

CallGetColumnStats == \E i \in StoreStatsInputs : Returns(Call("getColumnStats", i))
CallQueryData == \E i \in StoreQueryInputs : Returns(Call("queryData", i))
CallGetDataSample == \E i \in StoreSampleInputs : Returns(Call("getDataSample", i))
CallGetColumnValues == \E i \in StoreValuesInputs : Returns(Call("getColumnValues", i))
CallAggregateData == \E i \in StoreAggInputs : Returns(Call("aggregateData", i))

Next ==
    \/ Upload
    \/ ClearData
    \/ Render
    \/ CallGetColumnStats
    \/ CallQueryData
    \/ CallGetDataSample
    \/ CallGetColumnValues
    \/ CallAggregateData

Spec == Init /\ [][Next]_vars

-----------------------------------------------------------------------------
(* One tool applied to one table and one input: the table is loaded and    *)
(* the call is pending in the initial state, and the step runs it.         *)

Pending(tables, calls) ==
    /\ csvDataRef \in tables
    /\ data = csvDataRef
    /\ activeFilters = <<>>
    /\ queued = NoUpdate
    /\ panelFilters = <<>>
    /\ upload = NoUploads
    /\ call \in calls
    /\ result = NoResult
    /\ snap = NoSnap

Run == result = NoResult /\ call # NoCall /\ Returns(call)

InitQuery == Pending(QueryTables, { Call("queryData", i) : i \in QueryInputs })
SpecQuery == InitQuery /\ [][Run]_vars

\* a queryData call runs to completion on one of the engines
RunSort ==
    /\ result = NoResult /\ call # NoCall /\ call.op = "queryData"
    /\ \E sorted \in QuerySortOutcomes(csvDataRef, call.input) :
           result' = QueryDataSortedAs(csvDataRef, call.input, sorted)
    /\ UNCHANGED <<csvDataRef, data, activeFilters, queued, panelFilters, call, snap, upload>>

InitSort == Pending(SortTables, { Call("queryData", i) : i \in SortInputs })
SpecSort == InitSort /\ [][RunSort]_vars

InitGrid == Pending(QueryTables, { Call("queryData", i) : i \in GridInputs })
SpecGrid == InitGrid /\ [][Run]_vars

InitStats == Pending(StatsTables, { Call("getColumnStats", i) : i \in StatsInputs })
SpecStats == InitStats /\ [][Run]_vars

InitValues == Pending(ValuesTables, { Call("getColumnValues", i) : i \in ValuesInputs })
SpecValues == InitValues /\ [][Run]_vars

InitAgg == Pending(AggTables, { Call("aggregateData", i) : i \in AggInputs })
SpecAgg == InitAgg /\ [][Run]_vars

\* csv-upload: a file has been read and parsed, and parseFile hands the
\* table it builds from it to setData
ParseFile ==
    /\ call # NoCall /\ call.op = "parseFile"
    /\ SetData(MakeCsvData(call.input.fileName, call.input.headers, call.input.rows))
    /\ UNCHANGED upload

InitInfer ==
    /\ csvDataRef = NoData
    /\ data = NoData
    /\ activeFilters = <<>>
    /\ queued = NoUpdate
    /\ panelFilters = <<>>
    /\ upload = NoUploads
    /\ call \in { Call("parseFile", f) : f \in ParsedFiles }
    /\ result = NoResult
    /\ snap = NoSnap

SpecInfer == InitInfer /\ [][ParseFile]_vars

-----------------------------------------------------------------------------
(* csv-upload: parseFile, from the drop or the file selection to the       *)
(* callback or continuation that ends it.  isLoading and error hold the    *)
(* value of the latest setIsLoading / setError call.                       *)

\* a path of parseFile that does not load a table ends: setError(message),
\* setIsLoading(false)
FinishStillLoading(u, n, path, message) ==
    [u EXCEPT !.error = message,
              !.inFlight = { q \in @ : q.n # n },
              !.finished = @ + 1, !.last = path]

Finish(u, n, path, message) ==
    [u EXCEPT !.isLoading = FALSE, !.error = message,
              !.inFlight = { q \in @ : q.n # n },
              !.finished = @ + 1, !.last = path]

\* the path that loads a table ends: setData(...), setIsLoading(false)
Loaded(u, n) ==
    [u EXCEPT !.isLoading = FALSE,
              !.inFlight = { q \in @ : q.n # n },
              !.finished = @ + 1, !.last = "loaded", !.lastWriter = n]

\* handleDrop / handleFileInput call parseFile(file), which runs to the
\* point where it waits for the parser or the reader; the drop zone exists
\* while the provider holds no table
StartParse(file) ==
    /\ data = NoData
    /\ upload.started < MaxUploads
    /\ LET n == upload.started + 1
           u == [upload EXCEPT !.error = NoError, !.isLoading = TRUE, !.started = n]
       IN upload' =
            IF file.extension \in {"csv", "xlsx", "xls", "xlsb"}
            THEN [u EXCEPT !.inFlight = @ \cup {[n |-> n, file |-> file]}]
            ELSE Finish(u, n, "unsupported", "Unsupported file type")
    /\ UNCHANGED <<csvDataRef, data, activeFilters, queued, panelFilters, call, result, snap>>

\* the parse p ends without a table
Fails(p, path, message) ==
    /\ upload' = Finish(upload, p.n, path, message)
    /\ UNCHANGED <<csvDataRef, data, activeFilters, queued, panelFilters, call, result, snap>>

\* the CsvData object parseFile builds from each file: its name, its
\* header fields, its rows and the column types inferred from them
ParsedTables ==
    [file \in UploadedFiles |-> MakeCsvData(file.fileName, file.headers, file.rows)]

\* the parse p ends with the table built from the file
Loads(p) ==
    /\ SetData(ParsedTables[p.file])
    /\ upload' = Loaded(upload, p.n)

\* Papa.parse calls complete or error; or file.arrayBuffer() settles and
\* the rest of parseFile runs
Complete(p) ==
    /\ p \in upload.inFlight
    /\ IF p.file.extension = "csv"
       THEN IF p.file.fails
            THEN Fails(p, "csvFailed", "Failed to parse CSV")
            ELSE IF p.file.errors > 0 /\ Len(p.file.rows) = 0
            THEN Fails(p, "csvFailed", "Failed to parse CSV")
            ELSE Loads(p)
       ELSE IF p.file.fails
            THEN Fails(p, "readError", "Failed to read file")
            ELSE IF Len(p.file.rows) = 0
            THEN Fails(p, "emptySheet", "The spreadsheet appears to be empty.")
            ELSE Loads(p)

ChooseFile == \E file \in UploadedFiles : StartParse(file)
CompleteParse == \E p \in upload.inFlight : Complete(p)

\* the "Remove file" button, shown while the provider holds a table
RemoveFile == data # NoData /\ ClearData

NextUpload ==
    \/ ChooseFile
    \/ CompleteParse
    \/ RemoveFile
    \/ Render

SpecUpload == Init /\ [][NextUpload]_vars

\* every callback the parser or the reader owes is made in the end
SpecUploadLive == SpecUpload /\ WF_vars(CompleteParse)

-----------------------------------------------------------------------------
\* data-filter-panel: the effect that follows the props the AI sets
PropsUpdate(fs) ==
    /\ panelFilters' = fs
    /\ UNCHANGED <<csvDataRef, data, activeFilters, queued, call, result, snap, upload>>

\* addFilter, from the form the panel shows while a table is loaded
AddFilter(newFilter) ==
    /\ data # NoData
    /\ newFilter.column # "" /\ newFilter.value # <<>>
    /\ Len(panelFilters) < MaxFilters
    /\ panelFilters' = Append(panelFilters, newFilter)
    /\ UNCHANGED <<csvDataRef, data, activeFilters, queued, call, result, snap, upload>>

\* removeFilter(index), index counted from 1 here
RemoveFilter(index) ==
    /\ data # NoData
    /\ index \in DOMAIN panelFilters
    /\ panelFilters' = [k \in 1..(Len(panelFilters) - 1) |->
                           IF k < index THEN panelFilters[k] ELSE panelFilters[k + 1]]
    /\ UNCHANGED <<csvDataRef, data, activeFilters, queued, call, result, snap, upload>>

\* clearAll, a button shown while there are filters
ClearAll ==
    /\ data # NoData
    /\ Len(panelFilters) > 0
    /\ panelFilters' = <<>>
    /\ UNCHANGED <<csvDataRef, data, activeFilters, queued, call, result, snap, upload>>

PanelProps == \E fs \in PanelFilterLists : PropsUpdate(fs)
PanelAdd == \E f \in PanelFilterPool : AddFilter(f)
PanelRemove == \E i \in 1..MaxFilters : RemoveFilter(i)

\* the workspace: uploads, the provider's renders and the filter panel
NextPanel ==
    \/ Upload
    \/ ClearData
    \/ Render
    \/ PanelProps
    \/ PanelAdd
    \/ PanelRemove
    \/ ClearAll

SpecPanel == Init /\ [][NextPanel]_vars

InitNumeric == Pending(NumericTables, { Call("getColumnStats", i) : i \in StatsInputs })
SpecNumeric == InitNumeric /\ [][Run]_vars

-----------------------------------------------------------------------------
(* Claims about the store machine (Spec) *)

Returned == result # NoResult

ValidOperator(f) == f.operator \in Operators

\* the column names a call refers to
ReferencedColumns(c) ==
    CASE c.op \in {"getColumnStats", "getColumnValues"} -> {c.input.column}
      [] c.op = "aggregateData" -> {c.input.groupBy, c.input.aggregateColumn}
      [] c.op = "queryData" ->
            { c.input.filters.v[k].column : k \in DOMAIN c.input.filters.v }
            \cup (IF c.input.sortBy.has THEN {c.input.sortBy.v} ELSE {})
            \cup Range(c.input.columns.v)
      [] OTHER -> {}

\* C1: while the current-table slot is empty, a call of any of the five
\* tools fails with the "no data" error and returns no result.
C1_NoDataFails ==
    (Returned /\ csvDataRef = NoData) => (~result.ok /\ result.err = NoDataError)

C1_Witness ==
    /\ csvDataRef = NoData
    /\ call.op = "getDataSample"
    /\ ~result.ok /\ result.err = NoDataError

\* C2: a call that names a column absent from the headers (the column of
\* getColumnStats or getColumnValues, groupBy or aggregateColumn of
\* aggregateData, a filter column, sortBy or a requested column of
\* queryData) fails with the unknown-column error, which names the column
\* and lists the headers, and returns no result.
C2_UnknownColumnRejected ==
    (/\ Returned
     /\ csvDataRef # NoData
     /\ ReferencedColumns(call) \ Range(csvDataRef.headers) # {})
    => (/\ ~result.ok
        /\ result.err.kind = "unknownColumn"
        /\ result.err.column \in ReferencedColumns(call) \ Range(csvDataRef.headers)
        /\ result.err.available = csvDataRef.headers)

\* C3: a filter whose operator is not one of the seven, and an aggregate
\* whose operation is not one of the five, is rejected with an error.
C3_BadLiteralRejected ==
    (/\ Returned
     /\ csvDataRef # NoData
     /\ \/ /\ call.op = "queryData"
           /\ \E k \in DOMAIN call.input.filters.v :
                  ~ValidOperator(call.input.filters.v[k])
        \/ /\ call.op = "aggregateData"
           /\ call.input.operation \notin Operations)
    => ~result.ok

\* C8: a step in which a tool call returns, with a result or with an error,
\* leaves the stored table (headers, rows and their order, columnTypes,
\* totalRows) as it was, in the module-level reference and in the provider.
C8_ToolsDoNotMutate ==
    [][Returned' => (csvDataRef' = csvDataRef /\ data' = data)]_vars

\* a sorted query with no filter has returned, on a table the sort reorders
C8_Witness ==
    /\ Returned /\ call.op = "queryData" /\ result.ok
    /\ ~call.input.filters.has
    /\ QuerySorted(csvDataRef, call.input) # QueryFiltered(csvDataRef, call.input)
    /\ snap.call.op = "aggregateData" /\ snap.others

\* C9: a call that repeats the first call made on the table in the slot
\* returns what that call returned (the same output, or the same error),
\* whatever was called in between.
C9_Deterministic ==
    (Returned /\ call = snap.call) => result = snap.result

\* the first call was a data sample of a table that a sorted query made
\* after it would reorder, and the data sample has been repeated
C9_Witness ==
    /\ Returned /\ call.op = "getDataSample" /\ call = snap.call /\ result.ok
    /\ snap.others
    /\ \E i \in StoreQueryInputs :
           QuerySorted(csvDataRef, i) # QueryFiltered(csvDataRef, i)

-----------------------------------------------------------------------------
(* Claims about queryData (SpecQuery) *)

QueryReturned == Returned /\ call.op = "queryData" /\ result.ok

\* the string form of a value, null and undefined being the empty string
StringForm(v) == IF IsNullish(v) THEN <<>> ELSE ToStr(v)

SameIgnoringCase(s, t) == ToLowerCase(s) = ToLowerCase(t)

\* what a condition of one of the seven operators asks of a row
Satisfies(row, f) ==
    LET val == Get(row, f.column)
        a == ToNumber(val)
        b == ToNumber(f.value)
        bothNumbers == ~a.nan /\ ~b.nan
    IN CASE f.operator = "equals" ->
                SameIgnoringCase(StringForm(val), StringForm(f.value))
         [] f.operator = "notEquals" ->
                ~SameIgnoringCase(StringForm(val), StringForm(f.value))
         [] f.operator = "contains" ->
                Includes(ToLowerCase(StringForm(val)), ToLowerCase(StringForm(f.value)))
         [] f.operator = "gt" -> bothNumbers /\ a.n > b.n
         [] f.operator = "lt" -> bothNumbers /\ a.n < b.n
         [] f.operator = "gte" -> bothNumbers /\ a.n >= b.n
         [] f.operator = "lte" -> bothNumbers /\ a.n <= b.n

\* the rows (by index) that satisfy every condition of the call's filter list
SatisfyingRows ==
    { i \in 1..Len(csvDataRef.rows) :
        \A k \in DOMAIN call.input.filters.v :
            Satisfies(csvDataRef.rows[i], call.input.filters.v[k]) }

\* C4: with filters of the seven operators, the matched set of a query is
\* exactly the set of rows that satisfy every condition of the list (all
\* rows for an empty or absent list): totalMatched is its size and every
\* returned row is one of it.
C4_FilterCorrect ==
    (/\ QueryReturned
     /\ \A k \in DOMAIN call.input.filters.v : ValidOperator(call.input.filters.v[k]))
    => /\ Range(QuerySorted(csvDataRef, call.input)) = SatisfyingRows
       /\ result.out.totalMatched = Cardinality(SatisfyingRows)
       /\ \A k \in DOMAIN result.out.rows :
              "id" \in DOMAIN result.out.rows[k]
              => result.out.rows[k]["id"].n \in SatisfyingRows

\* equals "ab" has matched the one row holding "Ab" among three rows
C4_Witness ==
    /\ QueryReturned
    /\ call.input.filters = Some(<<Cond("v", "equals", Str(<<"a", "b">>))>>)
    /\ Len(csvDataRef.rows) = 3
    /\ csvDataRef.rows[1]["v"] = Null
    /\ csvDataRef.rows[2]["v"] = Str(<<"A", "b">>)
    /\ result.out.totalMatched = 1
    /\ Len(result.out.rows) = 1

\* the filtered and sorted rows of a query, projected, before pagination
FullRows(ref, input) ==
    LET all == QuerySorted(ref, input)
        columns == QueryColumns(ref, input)
    IN [k \in 1..Len(all) |-> ProjectRow(ref.rows[all[k]], columns)]

\* the rows queryData returns for page k (from 0) of size n
PageRows(ref, input, n, k) ==
    QueryData(ref, [input EXCEPT !.limit = Some(n), !.offset = Some(k * n)]).out.rows

\* the pages of size n for offset 0, n, 2n, ... one after the other
ConcatPages(ref, input, n) ==
    LET pages == (Len(QuerySorted(ref, input)) \div n) + 1
        f[k \in 0..pages] ==
            IF k = 0 THEN <<>> ELSE f[k - 1] \o PageRows(ref, input, n, k - 1)
    IN f[pages]

\* C5: for the table, filters and sort of any query, and every page size n
\* from 1, the pages for offset 0, n, 2n, ... put end to end are the
\* filtered and sorted rows, each once and in order; and the page a query
\* with limit n and offset k * n returns is rows k * n + 1 .. (k + 1) * n
\* of them.
C5_Pagination ==
    QueryReturned
    => /\ \A n \in 1..(MaxRows + 1) :
              ConcatPages(csvDataRef, call.input, n) = FullRows(csvDataRef, call.input)
       /\ LET n == call.input.limit.v
              offset == OrElse(call.input.offset, 0)
              full == FullRows(csvDataRef, call.input)
          IN (call.input.limit.has /\ n >= 1 /\ offset >= 0 /\ offset % n = 0)
             => result.out.rows = SubSeq(full, offset + 1, Min({offset + n, Len(full)}))

\* the second page of size 1 of three rows
C5_Witness ==
    /\ QueryReturned
    /\ call.input.limit = Some(1) /\ call.input.offset = Some(1)
    /\ result.out.totalMatched = 3
    /\ Len(result.out.rows) = 1
    /\ result.out.rows[1]["id"] = Num(2)

\* C6: totalMatched is the number of rows that pass the filters, whatever
\* limit, offset, sortBy, sortOrder and columns are, and rows holds at most
\* limit entries (50 when limit is absent; a limit below zero is read as
\* allowing no row at all, which is the least it can ask).
C6_TotalAndLimit ==
    QueryReturned
    => /\ result.out.totalMatched =
              Cardinality({ i \in 1..Len(csvDataRef.rows) :
                              \A k \in DOMAIN call.input.filters.v :
                                  EvalFilter(csvDataRef.rows[i], call.input.filters.v[k]) })
       /\ Len(result.out.rows) <= Max({OrElse(call.input.limit, DefaultLimit), 0})

\* the value a row (by index) has in the sort column
SortValue(i) == Get(csvDataRef.rows[i], call.input.sortBy.v)

\* C7: when a query sorts by a column of the table, ascending or
\* descending, no row whose sort value is null or undefined comes before a
\* row whose sort value is neither, in the sorted sequence and in the
\* returned page.
C7_NullsLast ==
    (/\ QueryReturned
     /\ call.input.sortBy.has
     /\ SeqIncludes(csvDataRef.headers, call.input.sortBy.v))
    => /\ LET sorted == QuerySorted(csvDataRef, call.input)
          IN \A i, j \in DOMAIN sorted :
                 (i < j /\ IsNullish(SortValue(sorted[i]))) => IsNullish(SortValue(sorted[j]))
       /\ \A i, j \in DOMAIN result.out.rows :
              (/\ i < j
               /\ SeqIncludes(result.out.columns, call.input.sortBy.v)
               /\ IsNullish(Get(result.out.rows[i], call.input.sortBy.v)))
              => IsNullish(Get(result.out.rows[j], call.input.sortBy.v))

\* a descending sort of a table whose first row holds null and whose later
\* rows hold 2 and 10: 10, 2, null
C7_Witness ==
    /\ QueryReturned
    /\ call.input.sortBy = Some("v") /\ call.input.sortOrder = Some("desc")
    /\ Len(csvDataRef.rows) = 3
    /\ csvDataRef.rows[1]["v"] = Null
    /\ csvDataRef.rows[2]["v"] = Num(2)
    /\ csvDataRef.rows[3]["v"] = Num(10)
    /\ Len(result.out.rows) = 3
    /\ result.out.rows[1]["v"] = Num(10)
    /\ result.out.rows[3]["v"] = Null

\* the requested columns that are headers of the table, in header order
\* (all headers when columns is absent or empty)
RequestedInHeaderOrder ==
    LET requested(h) == SeqIncludes(call.input.columns.v, h)
    IN IF call.input.columns.has /\ Len(call.input.columns.v) > 0
       THEN SelectSeq(csvDataRef.headers, requested)
       ELSE csvDataRef.headers

\* C21: the projection of a query: every returned row holds exactly the
\* requested columns that are headers (all headers when columns is absent),
\* requested names that are not headers are left out, and the columns list
\* of the result is those columns in header order.
C21_Projection ==
    QueryReturned
    => /\ \A k \in DOMAIN result.out.rows :
              DOMAIN result.out.rows[k] = Range(RequestedInHeaderOrder)
       /\ result.out.columns = RequestedInHeaderOrder

NumericOperators == {"gt", "lt", "gte", "lte"}

\* a value that does not coerce to a number: undefined, or text that does
\* not read as a number
NonNumeric(v) == v.t = "undef" \/ (v.t = "str" /\ StringToNumber(v.s).nan)

\* the rows (by index) on which a condition of the call compares with gt,
\* lt, gte or lte and the row's value or the condition's does not coerce
NotComparableRows ==
    { i \in 1..Len(csvDataRef.rows) :
        \E k \in DOMAIN call.input.filters.v :
            LET f == call.input.filters.v[k]
            IN /\ f.operator \in NumericOperators
               /\ \/ NonNumeric(Get(csvDataRef.rows[i], f.column))
                  \/ NonNumeric(f.value) }

\* C22: a gt, lt, gte or lte condition is false on a row whenever the
\* row's value or the condition's value does not coerce to a number: such a
\* row is not matched, and the query still returns a result rather than an
\* error.
C22_NotANumberFails ==
    (Returned /\ call.op = "queryData")
    => /\ result.ok
       /\ Range(QuerySorted(csvDataRef, call.input)) \cap NotComparableRows = {}
       /\ result.out.totalMatched <= Len(csvDataRef.rows) - Cardinality(NotComparableRows)
       /\ \A k \in DOMAIN result.out.rows :
              "id" \in DOMAIN result.out.rows[k]
              => result.out.rows[k]["id"].n \notin NotComparableRows

\* gte "10" on three rows holding 10, the text "Ab" and 2: only the first
\* row is matched, and gt "x" matches none of three rows
C22_Witness ==
    /\ QueryReturned
    /\ Len(csvDataRef.rows) = 3
    /\ csvDataRef.rows[1]["v"] = Num(10)
    /\ csvDataRef.rows[2]["v"] = Str(<<"A", "b">>)
    /\ csvDataRef.rows[3]["v"] = Num(2)
    /\ call.input.filters = Some(<<Cond("v", "gte", Str(<<"1", "0">>))>>)
    /\ NotComparableRows = {2}
    /\ result.out.totalMatched = 1

-----------------------------------------------------------------------------
(* Claims about the grid's filters and queryData's (SpecGrid) *)

\* the filters of the call as the grid holds them: the value a string
GridFilters ==
    [k \in DOMAIN call.input.filters.v |->
        ActiveFilter(call.input.filters.v[k].column, call.input.filters.v[k].operator,
                     call.input.filters.v[k].value.s)]

\* C28: for a list of filters with string values over the seven operators,
\* the data grid's applyFilters keeps exactly the rows queryData's filter
\* step keeps, in the same order, so the number of rows the grid matches
\* is queryData's totalMatched.
C28_GridMatchesQuery ==
    (/\ QueryReturned
     /\ \A k \in DOMAIN call.input.filters.v :
            /\ ValidOperator(call.input.filters.v[k])
            /\ call.input.filters.v[k].value.t = "str")
    => LET kept == ApplyFilters(csvDataRef.rows, GridFilters)
           filtered == QueryFiltered(csvDataRef, call.input)
       IN /\ kept = [k \in 1..Len(filtered) |-> csvDataRef.rows[filtered[k]]]
          /\ Len(kept) = result.out.totalMatched

\* equals "Ab" on the rows null, "Ab", 2: the grid and the query both keep
\* the second row only
C28_Witness ==
    /\ QueryReturned
    /\ call.input.filters = Some(<<Cond("v", "equals", Str(<<"A", "b">>))>>)
    /\ Len(csvDataRef.rows) = 3
    /\ csvDataRef.rows[1]["v"] = Null
    /\ csvDataRef.rows[2]["v"] = Str(<<"A", "b">>)
    /\ csvDataRef.rows[3]["v"] = Num(2)
    /\ ApplyFilters(csvDataRef.rows, GridFilters) = <<csvDataRef.rows[2]>>
    /\ result.out.totalMatched = 1

-----------------------------------------------------------------------------
(* Claims about queryData's sort step (SpecSort) *)

\* the table row (by index) that the k-th returned row is
ReturnedRow(k) == result.out.rows[k]["id"].n

\* C23: the sort of a query is a stable permutation: the returned rows are
\* exactly the filtered rows, each once; any two of them whose sort values
\* are both numbers are in numeric order (the smaller first for asc, the
\* larger first for desc); and two rows with equal sort values are in their
\* table order, under asc and under desc.
C23_StableSort ==
    (/\ QueryReturned
     /\ call.input.sortBy.has
     /\ SeqIncludes(csvDataRef.headers, call.input.sortBy.v))
    => LET n == Len(result.out.rows)
           desc == call.input.sortOrder.has /\ call.input.sortOrder.v = "desc"
       IN /\ n = Len(QueryFiltered(csvDataRef, call.input))
          /\ { ReturnedRow(k) : k \in 1..n } = Range(QueryFiltered(csvDataRef, call.input))
          /\ \A i, j \in 1..n :
                 LET a == SortValue(ReturnedRow(i))
                     b == SortValue(ReturnedRow(j))
                 IN /\ (i < j /\ a.t = "num" /\ b.t = "num")
                       => IF desc THEN a.n >= b.n ELSE a.n <= b.n
                    /\ (i < j /\ a = b) => ReturnedRow(i) < ReturnedRow(j)

-----------------------------------------------------------------------------
(* Claims about getColumnStats (SpecStats) *)

StatsReturned == Returned /\ call.op = "getColumnStats"

\* C10: on a column of the table, count is the number of rows, nullCount
\* the number of rows whose value is null, undefined or the empty string,
\* and uniqueCount the number of distinct string forms, null and undefined
\* sharing the bucket of the empty string; the column [10, 20, 30, null,
\* "x"] gives count 5, nullCount 1 and uniqueCount 5.
C10_Counts ==
    (StatsReturned /\ SeqIncludes(csvDataRef.headers, call.input.column))
    => LET cells == ColumnCells(csvDataRef, call.input.column)
           forms == { ToStr(cells[i]) : i \in { j \in DOMAIN cells : ~IsNullish(cells[j]) } }
           buckets == IF \E i \in DOMAIN cells : IsNullish(cells[i])
                      THEN forms \cup {<<>>} ELSE forms
       IN /\ result.ok
          /\ result.out.count = Len(csvDataRef.rows)
          /\ result.out.nullCount =
                 Cardinality({ i \in DOMAIN cells :
                                 cells[i] \in {Null, Undef, Str(<<>>)} })
          /\ result.out.uniqueCount = Cardinality(buckets)
          /\ (csvDataRef = ExampleStatsTable /\ call.input.column = "v")
             => (/\ result.out.count = 5
                 /\ result.out.nullCount = 1
                 /\ result.out.uniqueCount = 5)

C10_Witness ==
    /\ StatsReturned /\ result.ok
    /\ csvDataRef = ExampleStatsTable /\ call.input.column = "v"
    /\ result.out.count = 5 /\ result.out.nullCount = 1 /\ result.out.uniqueCount = 5

-----------------------------------------------------------------------------
(* Claims about getColumnStats' numeric fields (SpecNumeric) *)

\* a cell that coerces to a number: a number, or a non-empty string that
\* reads as one
Coerces(v) == v.t = "num" \/ (v.t = "str" /\ v.s # <<>> /\ ~StringToNumber(v.s).nan)

NumberOf(v) == IF v.t = "num" THEN v.n ELSE StringToNumber(v.s).n

RECURSIVE SumOver(_, _)
SumOver(cells, I) ==
    IF I = {} THEN 0
    ELSE LET i == CHOOSE j \in I : TRUE
         IN NumberOf(cells[i]) + SumOver(cells, I \ {i})

\* the k-th smallest number among the cells I
KthSmallest(cells, I, k) ==
    CHOOSE x \in { NumberOf(cells[i]) : i \in I } :
        /\ Cardinality({ i \in I : NumberOf(cells[i]) < x }) < k
        /\ k <= Cardinality({ i \in I : NumberOf(cells[i]) <= x })

\* r is x / n rounded to the nearest integer, halves upwards
IsRounded(r, x, n) == 2 * r * n <= 2 * x + n /\ 2 * x + n < 2 * r * n + 2 * n

NumericFields == {"min", "max", "mean", "median", "stdDev"}

\* C11: getColumnStats computes min, max, mean and median over the values
\* of the column that coerce to a number only: min is the smallest and max
\* the largest of them, median the middle one of them in ascending order
\* (the average of the two middle ones when their number is even), mean
\* their arithmetic mean (mean and median to 2 decimals); the five numeric
\* fields are null exactly when no value coerces; the numeric set
\* {10, 20, 30} gives min 10, max 30, mean 20, median 20 and stdDev 8.16.
C11_NumericFields ==
    (StatsReturned /\ SeqIncludes(csvDataRef.headers, call.input.column))
    => LET cells == ColumnCells(csvDataRef, call.input.column)
           I == { i \in DOMAIN cells : Coerces(cells[i]) }
           n == Cardinality(I)
           out == result.out
       IN /\ result.ok
          /\ \A f \in NumericFields : out[f].has <=> (n > 0)
          /\ n > 0 =>
                /\ out.min.v = KthSmallest(cells, I, 1)
                /\ out.max.v = KthSmallest(cells, I, n)
                /\ IsRounded(out.mean.v, 100 * SumOver(cells, I), n)
                /\ out.median.v =
                       IF n % 2 = 1 THEN 100 * KthSmallest(cells, I, (n + 1) \div 2)
                       ELSE 50 * (KthSmallest(cells, I, n \div 2)
                                  + KthSmallest(cells, I, (n \div 2) + 1))
          /\ (csvDataRef = ExampleStatsTable /\ call.input.column = "v")
             => (/\ out.min = Some(10) /\ out.max = Some(30)
                 /\ out.mean = Some(2000) /\ out.median = Some(2000)
                 /\ out.stdDev = Some(816))

\* a column with a null, a text and two different numbers: the median is
\* the average of the two
C11_Witness ==
    /\ StatsReturned /\ result.ok /\ call.input.column = "v"
    /\ \E i, j, k \in DOMAIN csvDataRef.rows :
          /\ csvDataRef.rows[i].v = Null
          /\ csvDataRef.rows[j].v = Num(10)
          /\ csvDataRef.rows[k].v = Num(35)
    /\ Len(csvDataRef.rows) = 3
    /\ result.out.min = Some(10) /\ result.out.max = Some(35)
    /\ result.out.median = Some(2250)

-----------------------------------------------------------------------------
(* Claims about blank values in numeric contexts (SpecQuery) *)

\* the rows (by index) of the table whose value in a column is null or the
\* empty string
BlankRows(column) ==
    { i \in 1..Len(csvDataRef.rows) :
        Get(csvDataRef.rows[i], column) \in {Null, Str(<<>>)} }

\* the rows (by index) whose value in a column is not blank and coerces to
\* a number
NumberRows(column) ==
    { i \in 1..Len(csvDataRef.rows) : Coerces(Get(csvDataRef.rows[i], column)) }

\* C29: a row whose value is null or the empty string is not a number in
\* any numeric context of the engine: getColumnStats' numeric set is made
\* of the other rows' values only, such a row never passes a gt, lt, gte or
\* lte condition of queryData, and it adds nothing to the values
\* aggregateData reduces for its group.
C29_BlankIsNotANumber ==
    QueryReturned
    => /\ \A h \in Range(csvDataRef.headers) :
              Len(NumericValues(ColumnCells(csvDataRef, h))) = Cardinality(NumberRows(h))
       /\ \A k \in DOMAIN call.input.filters.v :
              call.input.filters.v[k].operator \in NumericOperators
              => Range(QuerySorted(csvDataRef, call.input))
                     \cap BlankRows(call.input.filters.v[k].column) = {}
       /\ \A i \in 1..Len(csvDataRef.rows) :
              Len(GroupNumbers(csvDataRef, AggInput("id", "v", "sum", NoStr, NoStr, NoInt),
                               NumberToString(i)))
                  = Cardinality(NumberRows("v") \cap {i})

-----------------------------------------------------------------------------
(* Claims about getColumnValues (SpecValues) *)

ValuesReturned ==
    /\ Returned /\ call.op = "getColumnValues"
    /\ SeqIncludes(csvDataRef.headers, call.input.column)

\* the string-form keys of a column
KeysOf(cells) == { StringForm(cells[i]) : i \in DOMAIN cells }

KeyCount(cells, k) == Cardinality({ i \in DOMAIN cells : StringForm(cells[i]) = k })

\* the row in which a key is first encountered
KeyFirst(cells, k) == Min({ i \in DOMAIN cells : StringForm(cells[i]) = k })

\* the keys that come before k in the frequency table: a larger count, or
\* the same count and encountered earlier
KeysBefore(cells, k) ==
    { j \in KeysOf(cells) :
        \/ KeyCount(cells, j) > KeyCount(cells, k)
        \/ KeyCount(cells, j) = KeyCount(cells, k) /\ KeyFirst(cells, j) < KeyFirst(cells, k) }

\* C12: getColumnValues returns uniqueCount = the number of distinct
\* string-form keys of the column, whatever the limit, and values = the
\* first min(limit, uniqueCount) entries (limit 50 when absent) of the
\* frequency table in order of non-increasing count, keys of equal count in
\* the order they were first encountered.
C12_TopValues ==
    ValuesReturned
    => LET cells == ColumnCells(csvDataRef, call.input.column)
           limit == OrElse(call.input.limit, DefaultValuesLimit)
           values == result.out.values
       IN /\ result.ok
          /\ result.out.uniqueCount = Cardinality(KeysOf(cells))
          /\ Len(values) = Max({Min({limit, Cardinality(KeysOf(cells))}), 0})
          /\ \A p \in DOMAIN values :
                /\ values[p].value \in KeysOf(cells)
                /\ Cardinality(KeysBefore(cells, values[p].value)) = p - 1
                /\ values[p].count = KeyCount(cells, values[p].value)

Distance(a, b) == IF a < b THEN b - a ELSE a - b

\* C13: when getColumnValues does not truncate (limit >= uniqueCount) on a
\* table with rows, the counts of the returned entries sum to the number of
\* rows, each percentage is count / rows * 100 rounded to 2 decimals, and
\* the percentages sum to 100 within (number of entries) x 0.01.
C13_Percentages ==
    (/\ ValuesReturned /\ result.ok
     /\ Len(csvDataRef.rows) > 0
     /\ OrElse(call.input.limit, DefaultValuesLimit) >= result.out.uniqueCount)
    => LET values == result.out.values
           total == Len(csvDataRef.rows)
       IN /\ Sum([p \in DOMAIN values |-> values[p].count]) = total
          /\ \A p \in DOMAIN values :
                IsRounded(values[p].percentage, 10000 * values[p].count, total)
          /\ Distance(Sum([p \in DOMAIN values |-> values[p].percentage]), 10000)
                <= Len(values)

\* three rows with three different keys: 33.33 each, 99.99 in all
C13_Witness ==
    /\ ValuesReturned /\ result.ok
    /\ Len(csvDataRef.rows) = 3
    /\ OrElse(call.input.limit, DefaultValuesLimit) >= result.out.uniqueCount
    /\ Len(result.out.values) = 3
    /\ \A p \in 1..3 : result.out.values[p].percentage = 3333

\* what getColumnStats returns for the column of the call
StatsOfColumn == GetColumnStats(csvDataRef, StatsInput(call.input.column)).out

\* the count getColumnValues reports for the empty-string key, 0 when the
\* key is not reported
EmptyBucketCount ==
    LET empty == { k \in DOMAIN result.out.values : result.out.values[k].value = <<>> }
    IN IF empty = {} THEN 0 ELSE result.out.values[CHOOSE k \in empty : TRUE].count

\* C27: on every known column, getColumnValues and getColumnStats report
\* the same uniqueCount, and when getColumnValues is not truncated the count
\* of its empty-string entry (0 when there is none) is getColumnStats'
\* nullCount.
C27_StatsAgreeWithValues ==
    (ValuesReturned /\ result.ok)
    => /\ result.out.uniqueCount = StatsOfColumn.uniqueCount
       /\ Len(result.out.values) = result.out.uniqueCount
          => EmptyBucketCount = StatsOfColumn.nullCount

\* the column [null, "", 2], not truncated: two keys, and two blanks
C27_Witness ==
    /\ ValuesReturned /\ result.ok
    /\ call.input = ValuesInput("v", NoInt)
    /\ Len(csvDataRef.rows) = 3
    /\ csvDataRef.rows[1]["v"] = Null
    /\ csvDataRef.rows[2]["v"] = Str(<<>>)
    /\ csvDataRef.rows[3]["v"] = Num(2)
    /\ result.out.uniqueCount = 2
    /\ EmptyBucketCount = 2
    /\ StatsOfColumn.nullCount = 2

-----------------------------------------------------------------------------
(* Claims about aggregateData (SpecAgg) *)

AggReturned ==
    /\ Returned /\ call.op = "aggregateData"
    /\ SeqIncludes(csvDataRef.headers, call.input.groupBy)
    /\ SeqIncludes(csvDataRef.headers, call.input.aggregateColumn)

\* the rows of the table whose groupBy value has the string form k
GroupRows(k) ==
    { i \in DOMAIN csvDataRef.rows :
        StringForm(Get(csvDataRef.rows[i], call.input.groupBy)) = k }

GroupKeys == KeysOf(ColumnCells(csvDataRef, call.input.groupBy))

\* C14: aggregateData without limit returns exactly one entry for each
\* distinct string form of the groupBy value occurring in the table (nulls
\* being one group) and none for any other group; with no sortBy and no
\* sortOrder the entries ascend by group key; the rows (N, 10), (N, 20),
\* (S, 5) with operation sum give [{N, 30}, {S, 5}].
C14_OneEntryPerGroup ==
    (AggReturned /\ ~call.input.limit.has)
    => LET results == result.out.results
       IN /\ result.ok
          /\ { results[p].group : p \in DOMAIN results } = GroupKeys
          /\ Len(results) = Cardinality(GroupKeys)
          /\ (~call.input.sortBy.has /\ ~call.input.sortOrder.has)
             => \A p, q \in DOMAIN results :
                    p < q => LocaleCompare(results[p].group, results[q].group) < 0
          /\ (csvDataRef = ExampleAggTable /\ call.input.operation = "sum"
              /\ call.input.groupBy = "region" /\ ~call.input.sortBy.has)
             => results = <<[group |-> <<"N">>, value |-> Fin(3000)],
                            [group |-> <<"S">>, value |-> Fin(500)]>>

\* groups first met in the order S, null, N come out as null, N, S
C14_Witness ==
    /\ AggReturned /\ result.ok /\ ~call.input.limit.has
    /\ ~call.input.sortBy.has /\ ~call.input.sortOrder.has
    /\ call.input.groupBy = "region"
    /\ Len(csvDataRef.rows) = 3
    /\ csvDataRef.rows[1].region = Str(<<"S">>)
    /\ csvDataRef.rows[2].region = Null
    /\ csvDataRef.rows[3].region = Str(<<"N">>)
    /\ [p \in 1..3 |-> result.out.results[p].group] = << <<>>, <<"N">>, <<"S">> >>

\* C15: with operation count, each group's value is the number of rows of
\* the table in that group, whether or not their aggregateColumn value
\* coerces to a number; so the values of all groups sum to the number of
\* rows of the table.
C15_CountCountsRows ==
    (AggReturned /\ result.ok /\ call.input.operation = "count"
     /\ ~call.input.limit.has)
    => LET results == result.out.results
       IN /\ \A p \in DOMAIN results :
                results[p].value = Fin(100 * Cardinality(GroupRows(results[p].group)))
          /\ Sum([p \in DOMAIN results |-> results[p].value.n])
                = 100 * Len(csvDataRef.rows)

\* the rows of group k whose aggregateColumn value coerces to a number
NumericGroupRows(k) ==
    { i \in GroupRows(k) : Coerces(Get(csvDataRef.rows[i], call.input.aggregateColumn)) }

\* C16: with operation sum, avg, min or max, the rows whose aggregateColumn
\* value is null or not numeric are dropped from the reduction: the sum is
\* the sum of the other rows' values, avg divides it by the number of those
\* other rows, and min and max are values of those other rows (0 when the
\* group has none).
C16_NonNumericDropped ==
    (AggReturned /\ result.ok /\ ~call.input.limit.has
     /\ call.input.operation \in {"sum", "avg", "min", "max"})
    => LET results == result.out.results
           cells == ColumnCells(csvDataRef, call.input.aggregateColumn)
           op == call.input.operation
       IN \A p \in DOMAIN results :
            LET I == NumericGroupRows(results[p].group)
                n == Cardinality(I)
                value == results[p].value
            IN /\ ~value.nan
               /\ n = 0 => value.n = 0
               /\ (n > 0 /\ op = "sum") => value.n = 100 * SumOver(cells, I)
               /\ (n > 0 /\ op = "avg") => IsRounded(value.n, 100 * SumOver(cells, I), n)
               /\ (n > 0 /\ op = "min") => value.n = 100 * KthSmallest(cells, I, 1)
               /\ (n > 0 /\ op = "max") => value.n = 100 * KthSmallest(cells, I, n)

\* the fully sorted result list: what the same call returns without limit
FullResults ==
    AggregateData(csvDataRef, [call.input EXCEPT !.limit = NoInt]).out.results

\* C17: whenever aggregateData is called with a limit, the results are the
\* first limit entries of the fully sorted result list, so there are at
\* most limit of them, for every limit supplied.
C17_LimitTruncates ==
    (AggReturned /\ result.ok /\ call.input.limit.has)
    => LET results == result.out.results
           limit == Max({call.input.limit.v, 0})
       IN /\ Len(results) <= limit
          /\ results = SubSeq(FullResults, 1, Min({limit, Len(FullResults)}))

-----------------------------------------------------------------------------
(* Claims about inferColumnTypes (SpecInfer) *)

\* a sampled value that counts as numeric: its trimmed string form is not
\* empty and reads as a number
IsNumericValue(v) ==
    LET t == Trim(StringForm(v)) IN t # <<>> /\ ~StringToNumber(t).nan

\* a sampled value that counts as date-shaped
IsDateValue(v) == ~IsNumericValue(v) /\ IsDateLike(Trim(StringForm(v)))

\* the non-null sampled values of a column of the loaded table
NonNullRows(h) ==
    { i \in DOMAIN csvDataRef.rows :
        /\ i <= SampleLimit
        /\ Get(csvDataRef.rows[i], h) \notin {Null, Undef, Str(<<>>)} }

NumericShare(h) ==
    Cardinality({ i \in NonNullRows(h) : IsNumericValue(Get(csvDataRef.rows[i], h)) })

DateShare(h) ==
    Cardinality({ i \in NonNullRows(h) : IsDateValue(Get(csvDataRef.rows[i], h)) })

\* C18: inferColumnTypes classifies a column as number iff its numeric
\* values are strictly more than 80% of its non-null sampled values,
\* otherwise as date iff its date-shaped values are strictly more than 80%
\* of them, otherwise as text ("string"); a column with no non-null
\* sampled value is text, and so is one that is exactly 80% numeric.
C18_TypeThresholds ==
    csvDataRef # NoData
    => \A h \in Range(csvDataRef.headers) :
         LET total == Cardinality(NonNullRows(h))
             isNumber == total > 0 /\ 5 * NumericShare(h) > 4 * total
             isDate == total > 0 /\ ~isNumber /\ 5 * DateShare(h) > 4 * total
             type == csvDataRef.columnTypes[h]
         IN /\ type = "number" <=> isNumber
            /\ type = "date" <=> isDate
            /\ type = "string" <=> (~isNumber /\ ~isDate)

\* five non-null values of which exactly four are numeric: text
C18_Witness ==
    /\ csvDataRef # NoData
    /\ Cardinality(NonNullRows("v")) = 5
    /\ NumericShare("v") = 4
    /\ csvDataRef.columnTypes["v"] = "string"

\* rows with the rows at i and j exchanged
Swapped(rows, i, j) == [rows EXCEPT ![i] = rows[j], ![j] = rows[i]]

\* C24: the types inferred for a file depend only on which rows are among
\* its first min(100, rowCount), not on their order or on later rows:
\* exchanging any two sampled rows (every permutation is a chain of such
\* exchanges), or changing the value of any row after the 100th, gives the
\* same mapping, and so does inferring again from the same rows.
C24_SampleOnly ==
    csvDataRef # NoData
    => LET rows == csvDataRef.rows
           headers == csvDataRef.headers
           sampleSize == Min({Len(rows), SampleLimit})
       IN /\ \A i, j \in 1..sampleSize :
                 i < j => InferColumnTypes(headers, Swapped(rows, i, j))
                              = csvDataRef.columnTypes
          /\ \A i \in (SampleLimit + 1)..Len(rows), c \in InferCells :
                 InferColumnTypes(headers, [rows EXCEPT ![i]["v"] = c])
                     = csvDataRef.columnTypes
          /\ InferColumnTypes(headers, rows) = csvDataRef.columnTypes

\* a file of 105 rows whose first 100 are exactly 80% numeric and whose
\* last five are numbers: text
C24_Witness ==
    /\ csvDataRef # NoData
    /\ Len(csvDataRef.rows) = SampleLimit + 5
    /\ csvDataRef.rows[1]["v"] = Num(1)
    /\ csvDataRef.rows[SampleLimit]["v"] = Str(<<"x">>)
    /\ csvDataRef.rows[SampleLimit + 1]["v"] = Num(1)
    /\ csvDataRef.columnTypes["v"] = "string"

-----------------------------------------------------------------------------
(* Claims about the table store (Spec) *)

\* C19: after setData(d) the table the engine reads (getCsvDataRef) and
\* the table the provider holds are both d and the active filters are
\* empty; after clearData both are empty and the active filters are empty;
\* no state is observed in which the two tables disagree.
C19_StoreAtomic ==
    [][/\ \A d \in StoreTables :
             SetData(d) => (csvDataRef' = d /\ data' = d /\ activeFilters' = <<>>)
       /\ ClearData => (csvDataRef' = NoData /\ data' = NoData /\ activeFilters' = <<>>)
       /\ csvDataRef' = data']_vars

-----------------------------------------------------------------------------
(* Claims about the filter panel and the data grid (SpecPanel) *)

\* C20: the filters held by the Data Filter Panel drive the data grid:
\* after any sequence of addFilter, removeFilter, clearAll and updates of
\* the panel's props by the AI, the filter list CsvPreview applies to the
\* rows is the panel's, so the grid shows exactly the rows that match the
\* panel's current filters.
C20_PanelDrivesGrid ==
    data # NoData => GridRows(data, activeFilters) = GridRows(data, panelFilters)

-----------------------------------------------------------------------------
(* Claims about uploads (SpecUpload, SpecUploadLive) *)

\* C25: uploads are serialized: the table handed to the store is always
\* that of a parse started later than the one whose table it replaces, so
\* a parse started earlier never overwrites the table of one started later.
C25_UploadsSerialized ==
    [][upload'.lastWriter >= upload.lastWriter]_vars

\* C26: a file that parses to zero data rows is rejected when it is loaded,
\* on the csv path and on the spreadsheet path: the table the engine reads
\* is never one with zero rows.
C26_EmptyFileRejected ==
    csvDataRef # NoData => Len(csvDataRef.rows) > 0

\* the paths of parseFile that end without loading a table
FailingPaths == {"unsupported", "csvFailed", "emptySheet", "readError"}

\* C30: a failed upload leaves the table untouched and ends the loading
\* state: every step that ends a path of parseFile sets isLoading to false;
\* when the path is a failing one it sets an error message and leaves the
\* module-level reference, the provider's table and the updates requested
\* of it as they were; and whenever isLoading is true it is false again
\* later.
C30_FailedUploadLeavesTable ==
    /\ [][upload'.finished # upload.finished
           => /\ ~upload'.isLoading
              /\ upload'.last \in FailingPaths
                 => /\ upload'.error # NoError
                    /\ csvDataRef' = csvDataRef
                    /\ data' = data
                    /\ queued' = queued]_vars
    /\ (upload.isLoading ~> ~upload.isLoading)

\* a csv parse has failed after another upload had loaded its table: the
\* table is still there, the error is set and loading has ended
C30_Witness ==
    /\ upload.last = "csvFailed"
    /\ upload.finished = 2
    /\ upload.lastWriter = 1
    /\ csvDataRef # NoData /\ csvDataRef.fileName = "a.csv"
    /\ upload.error = "Failed to parse CSV"
    /\ ~upload.isLoading

=============================================================================
